---- MODULE Spec2Model ----
(***************************************************************************)
(* Model of the natural-language prompt executor RealMCPExecutor           *)
(* (src/tests/logout-login.spec.ts): the prompt compiler                   *)
(* (parsePromptToActions and the functions below it) as operators over     *)
(* strings, and the multi-browser executor (execute, executeBrowserBatch,  *)
(* executePromptDirectly, initializeBrowser, cleanup) as a state machine   *)
(* whose steps are the code between two awaits.                            *)
(***************************************************************************)
EXTENDS Integers, Sequences, FiniteSets, TLC

(***************************************************************************)
(* JavaScript string primitives.                                           *)
(***************************************************************************)

\* String.prototype.includes
Includes(t, k) ==
  \E i \in 1..(Len(t) - Len(k) + 1) : SubSeq(t, i, i + Len(k) - 1) = k

\* String.prototype.startsWith at position i (1-based)
StartsAt(t, i, k) ==
  /\ i >= 1
  /\ i + Len(k) - 1 <= Len(t)
  /\ SubSeq(t, i, i + Len(k) - 1) = k

\* position of the first occurrence of k in t at or after i, 0 when absent
IndexFrom(t, k, i) ==
  IF \E j \in i..(Len(t) - Len(k) + 1) : StartsAt(t, j, k)
  THEN CHOOSE j \in i..(Len(t) - Len(k) + 1) :
         /\ StartsAt(t, j, k)
         /\ \A h \in i..(j - 1) : ~StartsAt(t, h, k)
  ELSE 0

CharAt(t, i) == IF i \in 1..Len(t) THEN SubSeq(t, i, i) ELSE ""

From(t, i) == SubSeq(t, i, Len(t))

UpperChars == <<"A","B","C","D","E","F","G","H","I","J","K","L","M",
                "N","O","P","Q","R","S","T","U","V","W","X","Y","Z">>

LowerChars == <<"a","b","c","d","e","f","g","h","i","j","k","l","m",
                "n","o","p","q","r","s","t","u","v","w","x","y","z">>

LowerChar(c) ==
  IF \E i \in 1..Len(UpperChars) : UpperChars[i] = c
  THEN LowerChars[CHOOSE i \in 1..Len(UpperChars) : UpperChars[i] = c]
  ELSE c

RECURSIVE ToLowerCase(_)
\* String.prototype.toLowerCase
ToLowerCase(t) ==
  IF Len(t) = 0 THEN ""
  ELSE IF Len(t) = 1 THEN LowerChar(t)
  ELSE ToLowerCase(SubSeq(t, 1, Len(t) \div 2))
         \o ToLowerCase(SubSeq(t, Len(t) \div 2 + 1, Len(t)))

\* the regular-expression class \s
IsSpace(c) == c \in {" ", "\n", "\t", "\r"}

\* the regular-expression class \d
IsDigit(c) == c \in {"0","1","2","3","4","5","6","7","8","9"}

\* the regular-expression class \w
IsWord(c) == IsDigit(c) \/ c = "_" \/ LowerChar(c) \in {LowerChars[i] : i \in 1..Len(LowerChars)}

\* String.prototype.trim
Trim(t) ==
  IF \A i \in 1..Len(t) : IsSpace(CharAt(t, i)) THEN ""
  ELSE LET a == CHOOSE i \in 1..Len(t) :
                  /\ ~IsSpace(CharAt(t, i))
                  /\ \A h \in 1..(i - 1) : IsSpace(CharAt(t, h))
           b == CHOOSE i \in 1..Len(t) :
                  /\ ~IsSpace(CharAt(t, i))
                  /\ \A h \in (i + 1)..Len(t) : IsSpace(CharAt(t, h))
       IN  SubSeq(t, a, b)

RECURSIVE Split(_, _)
\* String.prototype.split with a non-empty string separator
Split(t, sep) ==
  LET i == IndexFrom(t, sep, 1)
  IN  IF i = 0 THEN <<t>>
      ELSE <<SubSeq(t, 1, i - 1)>> \o Split(From(t, i + Len(sep)), sep)

\* end (exclusive) of the longest run of characters satisfying the class
\* P that starts at position i
RunEnd(t, i, P(_)) ==
  IF \E j \in i..Len(t) : ~P(CharAt(t, j))
  THEN CHOOSE j \in i..Len(t) :
         /\ ~P(CharAt(t, j))
         /\ \A h \in i..(j - 1) : P(CharAt(t, h))
  ELSE Len(t) + 1

\* parseInt of a string of decimal digits
RECURSIVE ParseInt(_)
ParseInt(t) ==
  IF Len(t) = 0 THEN 0
  ELSE LET d == CHOOSE n \in 0..9 : ToString(n) = CharAt(t, Len(t))
       IN  10 * ParseInt(SubSeq(t, 1, Len(t) - 1)) + d

(***************************************************************************)
(* The execution context the compiler reads (mcpContext, filled by         *)
(* loadApplicationConfig from the application's configuration file).       *)
(***************************************************************************)

applicationUrl == "https://app.test/login"

userCredentials == [username |-> "Admin", password |-> "admin123"]

\* an optional string field of MCPAction that is not set
Undefined == "<undefined>"

\* the optional timeout field of MCPAction when it is not set
NoTimeout == 0

\* MCPAction
Action(type, element, value, url, condition, timeout, description) ==
  [type |-> type, element |-> element, value |-> value, url |-> url,
   condition |-> condition, timeout |-> timeout, description |-> description]

NavigateAction(url, d) == Action("navigate", Undefined, Undefined, url, Undefined, NoTimeout, d)

FillAction(el, v, d) == Action("fill", el, v, Undefined, Undefined, NoTimeout, d)

ClickAction(el, d) == Action("click", el, Undefined, Undefined, Undefined, NoTimeout, d)

WaitAction(ms, d) == Action("wait", Undefined, Undefined, Undefined, Undefined, ms, d)

AssertAction(el, c, d) == Action("assert", el, Undefined, Undefined, c, NoTimeout, d)

\* the prefix `Step ${stepNumber}` of a description
StepLabel(n) == "Step " \o ToString(n)

(***************************************************************************)
(* Entity extraction.                                                      *)
(***************************************************************************)

NotUrlStop(c) == ~(IsSpace(c) \/ c \in {"`", "'", "\""})

\* the end (exclusive) of the match of /https?:\/\/[^\s`'"]+/ at i, 0 if none
UrlMatchEnd(t, i) ==
  LET b == IF StartsAt(t, i, "http://") THEN i + 7
           ELSE IF StartsAt(t, i, "https://") THEN i + 8 ELSE 0
  IN  IF b = 0 THEN 0
      ELSE IF RunEnd(t, b, NotUrlStop) > b THEN RunEnd(t, b, NotUrlStop) ELSE 0

\* step.match(/https?:\/\/[^\s`'"]+/): the first URL, "" for null
extractURL(step) ==
  IF \E i \in 1..Len(step) : UrlMatchEnd(step, i) > 0
  THEN LET i == CHOOSE i \in 1..Len(step) :
                  /\ UrlMatchEnd(step, i) > 0
                  /\ \A h \in 1..(i - 1) : UrlMatchEnd(step, h) = 0
       IN  SubSeq(step, i, UrlMatchEnd(step, i) - 1)
  ELSE ""

IsColonOrSpace(c) == c = ":" \/ IsSpace(c)

NotQuoteOrSpace(c) == ~(c = "\"" \/ IsSpace(c))

NotQuote(c) == c # "\""

\* where the group ([^"\s]+) starts when [:\s]+ ends (exclusive) at q
CredGroupStart(t, q) ==
  IF CharAt(t, q) = "\"" /\ RunEnd(t, q + 1, NotQuoteOrSpace) > q + 1
  THEN q + 1 ELSE q

\* the ends q of [:\s]+ (started at j) after which "?([^"\s]+) matches
CredSplits(t, j) ==
  {q \in (j + 1)..RunEnd(t, j, IsColonOrSpace) :
     RunEnd(t, CredGroupStart(t, q), NotQuoteOrSpace) > CredGroupStart(t, q)}

\* the positions where /label[:\s]+"?([^"\s]+)"?/i matches
CredMatches(t, label) ==
  {i \in 1..Len(t) :
     /\ StartsAt(ToLowerCase(t), i, label)
     /\ CredSplits(t, i + Len(label)) # {}}

Max(S) == CHOOSE x \in S : \A y \in S : y <= x

Min(S) == CHOOSE x \in S : \A y \in S : x <= y

\* group 1 of step.match(/label[:\s]+"?([^"\s]+)"?/i), "" for no match
LabeledValue(step, label) ==
  IF CredMatches(step, label) = {} THEN ""
  ELSE LET i == Min(CredMatches(step, label))
           q == Max(CredSplits(step, i + Len(label)))
           g == CredGroupStart(step, q)
       IN  SubSeq(step, g, RunEnd(step, g, NotQuoteOrSpace) - 1)

extractCredentials(step) ==
  [username |-> LabeledValue(step, "username"),
   password |-> LabeledValue(step, "password")]

\* where /label[:\s]+"([^"]+)"/i matched at i puts its group: <<from, to>>
QuotedGroup(t, i, label) ==
  LET j == i + Len(label)
      r == RunEnd(t, j, IsColonOrSpace)
      e == RunEnd(t, r + 1, NotQuote)
  IN  IF /\ StartsAt(ToLowerCase(t), i, label)
         /\ r > j
         /\ CharAt(t, r) = "\""
         /\ e > r + 1
         /\ e <= Len(t)
      THEN <<r + 1, e - 1>> ELSE <<>>

\* group 1 of step.match(/label[:\s]+"([^"]+)"/i), "" for no match
QuotedValue(step, label) ==
  IF \E i \in 1..Len(step) : QuotedGroup(step, i, label) # <<>>
  THEN LET i == Min({i \in 1..Len(step) : QuotedGroup(step, i, label) # <<>>})
           g == QuotedGroup(step, i, label)
       IN  SubSeq(step, g[1], g[2])
  ELSE ""

FormField(step, label) ==
  IF QuotedValue(step, label) = "" THEN <<>>
  ELSE <<[element |-> label \o " input field",
          value |-> QuotedValue(step, label), label |-> label]>>

extractFormFields(step) ==
  FormField(step, "first name") \o FormField(step, "last name")
    \o FormField(step, "email")

extractClickableElement(step) ==
  LET lowerStep == ToLowerCase(step)
  IN  IF Includes(lowerStep, "pim")
         /\ (Includes(lowerStep, "click") \/ Includes(lowerStep, "module"))
      THEN "PIM navigation link"
      ELSE IF Includes(lowerStep, "add") /\ ~Includes(lowerStep, "employee")
      THEN "Add Employee button"
      ELSE IF Includes(lowerStep, "save") THEN "save employee button"
      ELSE IF Includes(lowerStep, "login") THEN "login button"
      ELSE IF Includes(lowerStep, "user") /\ Includes(lowerStep, "icon")
      THEN "user dropdown menu icon"
      ELSE IF Includes(lowerStep, "logout") THEN "logout button"
      ELSE "clickable element"

extractVerificationDetails(step) ==
  IF Includes(step, "dashboard")
  THEN [element |-> "dashboard page", condition |-> "visible",
        description |-> "dashboard is displayed"]
  ELSE IF Includes(step, "employee") /\ Includes(step, "profile")
  THEN [element |-> "employee profile page", condition |-> "visible",
        description |-> "employee profile page is displayed"]
  ELSE [element |-> "page content", condition |-> "visible",
        description |-> "page content is visible"]

\* triggersNavigation testing the lower-cased step text
triggersNavigationAnyCase(step) ==
  Includes(ToLowerCase(step), "pim") \/ Includes(ToLowerCase(step), "add")
    \/ Includes(ToLowerCase(step), "save")

triggersNavigation(step) ==
  Includes(step, "pim") \/ Includes(step, "add") \/ Includes(step, "save")

\* whether /(\d+)\s*(?:ms|milliseconds|s|seconds)/i matches at i
TimeoutMatchAt(t, i) ==
  LET d == RunEnd(t, i, IsDigit)
      s == RunEnd(t, d, IsSpace)
  IN  /\ d > i
      /\ \/ StartsAt(ToLowerCase(t), s, "ms")
         \/ StartsAt(ToLowerCase(t), s, "milliseconds")
         \/ StartsAt(ToLowerCase(t), s, "s")

defaultTimeout == 2000

extractTimeout(step) ==
  IF \E i \in 1..Len(step) : TimeoutMatchAt(step, i)
  THEN LET i == Min({i \in 1..Len(step) : TimeoutMatchAt(step, i)})
           value == ParseInt(SubSeq(step, i, RunEnd(step, i, IsDigit) - 1))
       IN  IF Includes(step, "s") /\ ~Includes(step, "ms")
           THEN value * 1000 ELSE value
  ELSE defaultTimeout

complexWordLimit == 10

isComplexWorkflow(step) ==
  \/ Includes(step, " and ")
  \/ Includes(step, " then ")
  \/ Len(Split(step, " ")) > complexWordLimit

RECURSIVE SplitAndThen(_)
\* step.split(/ and | then /)
SplitAndThen(t) ==
  LET a == IndexFrom(t, " and ", 1)
      b == IndexFrom(t, " then ", 1)
  IN  IF a = 0 /\ b = 0 THEN <<t>>
      ELSE IF b = 0 \/ (a # 0 /\ a < b)
      THEN <<SubSeq(t, 1, a - 1)>> \o SplitAndThen(From(t, a + 5))
      ELSE <<SubSeq(t, 1, b - 1)>> \o SplitAndThen(From(t, b + 6))

decomposeComplexStep(step) ==
  LET parts == SplitAndThen(step)
  IN  [i \in 1..Len(parts) |-> Trim(parts[i])]

semanticAnalysis(step) ==
  [type |-> "click", element |-> "interactive element", description |-> step]

(***************************************************************************)
(* Data-driven expansion.                                                  *)
(***************************************************************************)

RECURSIVE Flatten(_)
\* actions.push(...a) for each a of a sequence of action lists
Flatten(ss) ==
  IF Len(ss) = 0 THEN <<>> ELSE Head(ss) \o Flatten(Tail(ss))

hasInlineDatasets(text) ==
  \/ /\ Includes(text, "username:")
     /\ Includes(text, "password:")
     /\ Includes(text, "expected:")
  \/ Includes(text, "- username:")
  \/ Includes(text, "Username:")
  \/ Includes(text, "following dataset:")
  \/ Includes(text, "test data:")

isDataDrivenTest(text) ==
  \/ Includes(text, "csv")
  \/ Includes(text, "data-driven")
  \/ Includes(text, "external dataset")
  \/ Includes(text, "logindata.csv")
  \/ Includes(text, "test data from")
  \/ hasInlineDatasets(text)

\* the first "," at or after i, 0 when there is none
CommaFrom(t, i) == IndexFrom(t, ",", i)

\* the places where k occurs in t
Occurrences(t, k) == {i \in 1..Len(t) : StartsAt(t, i, k)}

\* whether /.*username:\s*([^,]+),.*password:\s*([^,]+),.*expected:\s*(.+)/i
\* can match the line with "username:" at u, "password:" at p and
\* "expected:" at e
InlineTriple(line, u, p, e) ==
  LET c1 == CommaFrom(line, u + 9)
      c2 == CommaFrom(line, p + 9)
  IN  /\ c1 > u + 9
      /\ p > c1
      /\ c2 > p + 9
      /\ e > c2
      /\ e + 9 <= Len(line)

\* the dataset the greedy match of the single-line pattern extracts from a
\* line, <<>> when the line does not match
InlineMatch(line) ==
  LET low == ToLowerCase(line)
      U == Occurrences(low, "username:")
      P == Occurrences(low, "password:")
      E == Occurrences(low, "expected:")
      us == {u \in U : \E p \in P, e \in E : InlineTriple(line, u, p, e)}
  IN  IF us = {} THEN <<>>
      ELSE LET u == Max(us)
               p == Max({q \in P : \E e \in E : InlineTriple(line, u, q, e)})
               e == Max({f \in E : InlineTriple(line, u, p, f)})
           IN  <<[username |-> Trim(SubSeq(line, u + 9, CommaFrom(line, u + 9) - 1)),
                  password |-> Trim(SubSeq(line, p + 9, CommaFrom(line, p + 9) - 1)),
                  expected |-> Trim(From(line, e + 9))]>>

NotCommaOrSpace(c) == ~(c = "," \/ IsSpace(c))

\* the ends q of [:\s]+ (started at j) after which ([^,\s]+) matches
TokenSplits(t, j) ==
  {q \in (j + 1)..RunEnd(t, j, IsColonOrSpace) :
     RunEnd(t, q, NotCommaOrSpace) > q}

\* group 1 of line.match(/label[:\s]+([^,\s]+)/i), "" for no match
LabeledToken(line, label) ==
  LET ms == {i \in 1..Len(line) :
               /\ StartsAt(ToLowerCase(line), i, label)
               /\ TokenSplits(line, i + Len(label)) # {}}
  IN  IF ms = {} THEN ""
      ELSE LET q == Max(TokenSplits(line, Min(ms) + Len(label)))
           IN  SubSeq(line, q, RunEnd(line, q, NotCommaOrSpace) - 1)

\* whether line.match(/expected[:\s]+(.+)/i) matches
ExpectedMatches(line) ==
  \E i \in 1..Len(line) :
    /\ StartsAt(ToLowerCase(line), i, "expected")
    /\ IsColonOrSpace(CharAt(line, i + 8))
    /\ i + 9 <= Len(line)

\* group 1 of line.match(/expected[:\s]+(.+)/i), trimmed
ExpectedRest(line) ==
  LET i == Min({i \in 1..Len(line) :
                  /\ StartsAt(ToLowerCase(line), i, "expected")
                  /\ IsColonOrSpace(CharAt(line, i + 8))
                  /\ i + 9 <= Len(line)})
      r == RunEnd(line, i + 8, IsColonOrSpace)
  IN  IF r <= Len(line) THEN Trim(From(line, r)) ELSE Trim(From(line, Len(line)))

\* currentDataset after the username / password branch of the block scan:
\* token is group 1 of the match for the field, "" for no match
ReadToken(current, field, trimmedLine, token) ==
  IF Includes(trimmedLine, field) /\ Includes(trimmedLine, ":") /\ token # ""
  THEN [current EXCEPT ![field] = Trim(token)]
  ELSE current

\* whether the expected branch of the block scan reads the line
ReadsExpected(trimmedLine, line) ==
  Includes(trimmedLine, "expected") /\ Includes(trimmedLine, ":")
    /\ ExpectedMatches(line)

\* currentDataset after the expected branch
ReadExpected(current, readsExpected, line) ==
  IF readsExpected THEN [current EXCEPT !.expected = ExpectedRest(line)]
  ELSE current

\* acc after the line, current being currentDataset as the branches left it
AfterLine(acc, trimmedLine, readsExpected, current) ==
  IF Includes(trimmedLine, "dataset") \/ Includes(trimmedLine, "test data")
  THEN [acc EXCEPT !.inSection = TRUE]
  ELSE IF ~acc.inSection THEN acc
  ELSE IF readsExpected /\ current.username # "" /\ current.password # ""
            /\ current.expected # ""
  THEN [acc EXCEPT !.datasets = Append(acc.datasets, current),
                   !.current = [username |-> "", password |-> "", expected |-> ""]]
  ELSE [acc EXCEPT !.current = current]

ScanLine(acc, line, trimmedLine, readsExpected) ==
  AfterLine(acc, trimmedLine, readsExpected,
    ReadExpected(
      ReadToken(ReadToken(acc.current, "username", trimmedLine,
                          LabeledToken(line, "username")),
                "password", trimmedLine, LabeledToken(line, "password")),
      readsExpected, line))

\* one iteration of the block scan over a line; acc is
\* [datasets, current, inSection] with "" for a field not yet read
StructuredLine(acc, line) ==
  ScanLine(acc, line, ToLowerCase(Trim(line)),
           ReadsExpected(ToLowerCase(Trim(line)), line))

RECURSIVE StructuredScan(_, _)
StructuredScan(acc, lines) ==
  IF Len(lines) = 0 THEN acc
  ELSE StructuredScan(StructuredLine(acc, Head(lines)), Tail(lines))

\* a sequence cut after its first element
FirstOf(seq) == IF Len(seq) = 0 THEN <<>> ELSE <<seq[1]>>

\* the single-line pattern applied without the loop over the lines: the
\* dataset of the first line that matches and no other
InlineMatchesFirstHit(lines) ==
  FirstOf(Flatten([i \in 1..Len(lines) |-> InlineMatch(lines[i])]))

\* the datasets of the single-line pattern over all lines
InlineMatches(lines) == Flatten([i \in 1..Len(lines) |-> InlineMatch(lines[i])])

\* the block scan runs only when the single-line pattern found nothing
DatasetsOf(lines, datasets) ==
  IF Len(datasets) # 0 THEN datasets
  ELSE StructuredScan([datasets |-> <<>>, inSection |-> FALSE,
                       current |-> [username |-> "", password |-> "",
                                    expected |-> ""]], lines).datasets

extractInlineDatasets(text) ==
  DatasetsOf(Split(text, "\n"), InlineMatches(Split(text, "\n")))

\* `Step ${stepNumber}.${index + 1}`
RowLabel(stepNumber, index) == StepLabel(stepNumber) \o "." \o ToString(index + 1)

\* the login actions of a row with the click on the login button before the
\* fields are filled in
RowLoginActionsClickFirst(username, password, shownUser, shownPass, stepNumber, index) ==
  << NavigateAction(applicationUrl, RowLabel(stepNumber, index)
       \o ": Navigate to login page for test case " \o ToString(index + 1)),
     ClickAction("login button", RowLabel(stepNumber, index) \o ": Click login button"),
     FillAction("username input field", username, RowLabel(stepNumber, index)
       \o ": Enter username \"" \o shownUser \o "\""),
     FillAction("password input field", password, RowLabel(stepNumber, index)
       \o ": Enter password \"" \o shownPass \o "\""),
     WaitAction(3000, RowLabel(stepNumber, index) \o ": Wait for login response") >>

\* the actions both expanders emit for a row up to the wait for the response
RowLoginActions(username, password, shownUser, shownPass, stepNumber, index) ==
  << NavigateAction(applicationUrl, RowLabel(stepNumber, index)
       \o ": Navigate to login page for test case " \o ToString(index + 1)),
     FillAction("username input field", username, RowLabel(stepNumber, index)
       \o ": Enter username \"" \o shownUser \o "\""),
     FillAction("password input field", password, RowLabel(stepNumber, index)
       \o ": Enter password \"" \o shownPass \o "\""),
     ClickAction("login button", RowLabel(stepNumber, index) \o ": Click login button"),
     WaitAction(3000, RowLabel(stepNumber, index) \o ": Wait for login response") >>

DashboardAssert(stepNumber, index) ==
  AssertAction("dashboard page", "visible", RowLabel(stepNumber, index)
    \o ": Verify dashboard is displayed for valid credentials")

ErrorAssert(stepNumber, index) ==
  AssertAction("error message", "contains:Invalid credentials",
    RowLabel(stepNumber, index) \o ": Verify error message for invalid credentials")

SeparatorWait(stepNumber, index, count) ==
  IF index < count - 1
  THEN <<WaitAction(1000, RowLabel(stepNumber, index) \o ": Wait before next test case")>>
  ELSE <<>>

\* the body of inlineData.forEach for the dataset at index (0-based)
InlineRowActions(step, stepNumber, dataset, index, count) ==
  LET expected == ToLowerCase(dataset.expected)
  IN  RowLoginActions(dataset.username, dataset.password, dataset.username,
                      dataset.password, stepNumber, index)
      \o (IF Includes(expected, "dashboard") THEN <<DashboardAssert(stepNumber, index)>>
          ELSE IF Includes(expected, "invalid") \/ Includes(expected, "error")
          THEN <<ErrorAssert(stepNumber, index)>>
          ELSE <<>>)
      \o (IF Includes(expected, "dashboard") /\ Includes(ToLowerCase(step), "logout")
          THEN << ClickAction("user dropdown menu", RowLabel(stepNumber, index)
                    \o ": Click user dropdown menu"),
                  ClickAction("logout button", RowLabel(stepNumber, index)
                    \o ": Click logout button"),
                  WaitAction(2000, RowLabel(stepNumber, index)
                    \o ": Wait for logout to complete") >>
          ELSE <<>>)
      \o SeparatorWait(stepNumber, index, count)

\* inlineData.forEach((dataset, index) => ...)
InlineDataActions(step, stepNumber, inlineData) ==
  Flatten([i \in 1..Len(inlineData) |->
             InlineRowActions(step, stepNumber, inlineData[i], i - 1,
                              Len(inlineData))])

generateInlineDataActions(step, stepNumber) ==
  InlineDataActions(step, stepNumber, extractInlineDatasets(step))

(***************************************************************************)
(* The test-data directory dataDir: a set of files [name, readable,        *)
(* content], read through fs by readCSVData.                               *)
(***************************************************************************)

extractCSVFileName(step) ==
  LET low == ToLowerCase(step)
      \* the places where /(\w+\.csv)/i can start
      starts == {i \in 1..Len(step) :
                   /\ IsWord(CharAt(step, i))
                   /\ StartsAt(low, RunEnd(step, i, IsWord), ".csv")}
  IN  IF starts = {} THEN "loginData.csv"
      ELSE SubSeq(step, Min(starts), RunEnd(step, Min(starts), IsWord) + 3)

\* row[header], "" when the row has no such column
Column(row, header) ==
  IF \E i \in 1..Len(row) : row[i][1] = header
  THEN row[Max({i \in 1..Len(row) : row[i][1] = header})][2]
  ELSE ""

\* the row object built from one data line: <<header, value>> pairs
CsvRow(headers, line) ==
  LET values == Split(line, ",")
  IN  [i \in 1..Len(headers) |->
         <<headers[i], IF i <= Len(values) THEN Trim(values[i]) ELSE "">>]

readCSVData(dataDir, fileName) ==
  IF ~\E f \in dataDir : f.name = fileName THEN <<>>
  ELSE LET file == CHOOSE f \in dataDir : f.name = fileName
           lines == Split(Trim(file.content), "\n")
           cells == Split(lines[1], ",")
           headers == [i \in 1..Len(cells) |-> Trim(cells[i])]
       IN  IF ~file.readable THEN <<>>
           ELSE IF Len(lines) < 2 THEN <<>>
           ELSE [i \in 1..(Len(lines) - 1) |-> CsvRow(headers, lines[i + 1])]

\* a || b || '' over two columns of a row
Either(row, a, b) ==
  IF Column(row, a) # "" THEN Column(row, a) ELSE Column(row, b)

\* what `${row.Username || row.username}` prints
Shown(row, a, b) ==
  IF Either(row, a, b) # "" THEN Either(row, a, b)
  ELSE IF \E i \in 1..Len(row) : row[i][1] = b THEN "" ELSE "undefined"

\* the body of csvData.forEach for the row at index (0-based)
CsvRowActions(stepNumber, row, index, count) ==
  LET expectedResult == ToLowerCase(Either(row, "Expected", "expected"))
  IN  RowLoginActions(Either(row, "Username", "username"),
                      Either(row, "Password", "password"),
                      Shown(row, "Username", "username"),
                      Shown(row, "Password", "password"), stepNumber, index)
      \o (IF Includes(expectedResult, "dashboard")
          THEN <<DashboardAssert(stepNumber, index)>>
          ELSE IF Includes(expectedResult, "invalid")
          THEN <<ErrorAssert(stepNumber, index)>>
          ELSE <<>>)
      \o SeparatorWait(stepNumber, index, count)

\* csvData.forEach((row, index) => ...)
CsvDataActions(stepNumber, csvData) ==
  Flatten([i \in 1..Len(csvData) |->
             CsvRowActions(stepNumber, csvData[i], i - 1, Len(csvData))])

generateCSVDataActions(dataDir, step, stepNumber) ==
  CsvDataActions(stepNumber, readCSVData(dataDir, extractCSVFileName(step)))

generateDataDrivenActions(dataDir, step, stepNumber) ==
  IF hasInlineDatasets(step)
  THEN generateInlineDataActions(step, stepNumber)
  ELSE generateCSVDataActions(dataDir, step, stepNumber)

(***************************************************************************)
(* Intent classification and per-intent action templates.                  *)
(***************************************************************************)

\* keywords.some(keyword => text.includes(keyword))
matchesIntent(text, keywords) == \E k \in keywords : Includes(text, k)

\* analyzeStepContext with the click keywords tried before the login
\* keywords; the priority order does not hold for it
analyzeStepContextClickFirst(stepText) ==
  IF matchesIntent(stepText, {"navigate", "open", "go to", "visit"})
  THEN "navigate"
  ELSE IF matchesIntent(stepText, {"click", "press", "select", "choose", "tap"})
  THEN "click_element"
  ELSE IF matchesIntent(stepText, {"login", "sign in", "authenticate", "enter credentials"})
  THEN "login"
  ELSE IF matchesIntent(stepText, {"enter", "input", "type", "fill", "provide"})
  THEN "fill_form"
  ELSE IF matchesIntent(stepText, {"verify", "check", "confirm", "validate", "assert"})
  THEN "verify_element"
  ELSE IF matchesIntent(stepText, {"wait", "pause", "delay"})
  THEN "wait_action"
  ELSE IF isComplexWorkflow(stepText) THEN "complex_workflow"
  ELSE IF isDataDrivenTest(stepText) THEN "data_driven_test"
  ELSE "unknown"

\* context.primaryAction as set by analyzeStepContext
analyzeStepContext(stepText) ==
  IF matchesIntent(stepText, {"navigate", "open", "go to", "visit"})
  THEN "navigate"
  ELSE IF matchesIntent(stepText, {"login", "sign in", "authenticate", "enter credentials"})
  THEN "login"
  ELSE IF matchesIntent(stepText, {"enter", "input", "type", "fill", "provide"})
  THEN "fill_form"
  ELSE IF matchesIntent(stepText, {"click", "press", "select", "choose", "tap"})
  THEN "click_element"
  ELSE IF matchesIntent(stepText, {"verify", "check", "confirm", "validate", "assert"})
  THEN "verify_element"
  ELSE IF matchesIntent(stepText, {"wait", "pause", "delay"})
  THEN "wait_action"
  ELSE IF isComplexWorkflow(stepText) THEN "complex_workflow"
  ELSE IF isDataDrivenTest(stepText) THEN "data_driven_test"
  ELSE "unknown"

generateNavigationActions(step, stepNumber) ==
  LET url == IF extractURL(step) # "" THEN extractURL(step) ELSE applicationUrl
  IN  <<NavigateAction(url, StepLabel(stepNumber) \o ": Navigate to " \o url)>>

\* a || b on strings
OrElse(a, b) == IF a # "" THEN a ELSE b

generateLoginActions(step, stepNumber) ==
  LET credentials == extractCredentials(step)
      defaultCreds == userCredentials
  IN  << FillAction("username input field",
                    OrElse(credentials.username, defaultCreds.username),
                    StepLabel(stepNumber) \o ": Enter username"),
         FillAction("password input field",
                    OrElse(credentials.password, defaultCreds.password),
                    StepLabel(stepNumber) \o ": Enter password"),
         ClickAction("login button", StepLabel(stepNumber) \o ": Click login button"),
         WaitAction(3000, StepLabel(stepNumber) \o ": Wait for login to complete") >>

\* fields.forEach(field => actions.push(...))
FieldActions(fields, stepNumber) ==
  [i \in 1..Len(fields) |->
     FillAction(fields[i].element, fields[i].value,
                StepLabel(stepNumber) \o ": Enter " \o fields[i].label)]

generateFormActions(step, stepNumber) ==
  FieldActions(extractFormFields(step), stepNumber)

generateClickActions(step, stepNumber) ==
  LET element == extractClickableElement(step)
  IN  <<ClickAction(element, StepLabel(stepNumber) \o ": Click " \o element)>>
      \o (IF triggersNavigation(step)
          THEN <<WaitAction(2000, StepLabel(stepNumber) \o ": Wait for page transition")>>
          ELSE <<>>)

generateVerificationActions(step, stepNumber) ==
  LET verification == extractVerificationDetails(step)
  IN  <<AssertAction(verification.element, verification.condition,
                     StepLabel(stepNumber) \o ": Verify " \o verification.description)>>

generateWaitActions(step, stepNumber) ==
  LET timeout == extractTimeout(step)
  IN  <<WaitAction(timeout, StepLabel(stepNumber) \o ": Wait "
                     \o ToString(timeout) \o "ms")>>

\* generateSemanticActions answering with a wait instead of the click of
\* semanticAnalysis
generateSemanticActionsAsWait(step, stepNumber) ==
  <<WaitAction(1000, StepLabel(stepNumber) \o ": unclassified step")>>

generateSemanticActions(step, stepNumber) ==
  LET semanticAction == semanticAnalysis(step)
  IN  <<Action(semanticAction.type, semanticAction.element, Undefined, Undefined,
               Undefined, NoTimeout,
               StepLabel(stepNumber) \o ": " \o semanticAction.description)>>

\* the number of nested intelligentStepParser calls the engine's call stack
\* holds before it throws RangeError
MaxCallDepth == 4

\* what intelligentStepParser returns at nesting level depth: [actions,
\* depth, overflow], depth the deepest level reached below the call and
\* overflow whether the recursion ran out of stack
Parsed(actions, depth) == [actions |-> actions, depth |-> depth, overflow |-> FALSE]

\* generateWorkflowActions over the results subs of parsing the sub-steps
WorkflowResult(subs) ==
  [actions |-> Flatten([i \in 1..Len(subs) |-> subs[i].actions]),
   depth |-> Max({subs[i].depth : i \in 1..Len(subs)}),
   overflow |-> \E i \in 1..Len(subs) : subs[i].overflow]

RECURSIVE intelligentStepParser(_, _, _, _)
\* subActions.forEach(subAction => this.intelligentStepParser(subAction, ...))
ParseEach(dataDir, subActions, stepNumber, depth) ==
  [i \in 1..Len(subActions) |->
     intelligentStepParser(dataDir, subActions[i], stepNumber, depth)]

\* the switch of intelligentStepParser on context.primaryAction
ActionsFor(dataDir, step, stepNumber, depth, primaryAction) ==
  IF depth > MaxCallDepth
  THEN [actions |-> <<>>, depth |-> depth, overflow |-> TRUE]
  ELSE IF primaryAction = "navigate"
  THEN Parsed(generateNavigationActions(step, stepNumber), depth)
  ELSE IF primaryAction = "login"
  THEN Parsed(generateLoginActions(step, stepNumber), depth)
  ELSE IF primaryAction = "fill_form"
  THEN Parsed(generateFormActions(step, stepNumber), depth)
  ELSE IF primaryAction = "click_element"
  THEN Parsed(generateClickActions(step, stepNumber), depth)
  ELSE IF primaryAction = "verify_element"
  THEN Parsed(generateVerificationActions(step, stepNumber), depth)
  ELSE IF primaryAction = "wait_action"
  THEN Parsed(generateWaitActions(step, stepNumber), depth)
  ELSE IF primaryAction = "complex_workflow"
  THEN WorkflowResult(ParseEach(dataDir, decomposeComplexStep(step), stepNumber,
                                depth + 1))
  ELSE IF primaryAction = "data_driven_test"
  THEN Parsed(generateDataDrivenActions(dataDir, step, stepNumber), depth)
  ELSE Parsed(generateSemanticActions(step, stepNumber), depth)

\* the call at nesting level depth (1 for the call parseSimpleStep makes)
intelligentStepParser(dataDir, step, stepNumber, depth) ==
  ActionsFor(dataDir, step, stepNumber, depth,
             analyzeStepContext(Trim(ToLowerCase(step))))

fallbackBasicParser(step, stepNumber) ==
  LET lowerStep == ToLowerCase(step)
  IN  IF Includes(lowerStep, "navigate")
      THEN <<NavigateAction(applicationUrl,
                            StepLabel(stepNumber) \o ": Navigate to application")>>
      ELSE IF Includes(lowerStep, "login")
      THEN <<ClickAction("login button", StepLabel(stepNumber) \o ": Login action")>>
      ELSE <<WaitAction(1000, StepLabel(stepNumber) \o ": Default wait action")>>

\* what parseSimpleStep makes of the result of intelligentStepParser
OrFallback(parsed, step, stepNumber) ==
  IF ~parsed.overflow /\ Len(parsed.actions) > 0
  THEN parsed.actions
  ELSE fallbackBasicParser(step, stepNumber)

parseSimpleStep(dataDir, step, stepNumber) ==
  OrFallback(intelligentStepParser(dataDir, step, stepNumber, 1), step, stepNumber)

(***************************************************************************)
(* Step segmentation.                                                      *)
(***************************************************************************)

\* /^\d+\.\s/.test(t)
IsNumberedLine(t) ==
  LET d == RunEnd(t, 1, IsDigit)
  IN  d > 1 /\ CharAt(t, d) = "." /\ IsSpace(CharAt(t, d + 1))

isStepByStepPrompt(content) ==
  \/ IsNumberedLine(From(content, RunEnd(content, 1, IsSpace)))
  \/ Includes(content, "1.")
  \/ Includes(content, "2.")

\* step.replace(/^\d+\.\s*/, '')
StripNumber(step) ==
  LET d == RunEnd(step, 1, IsDigit)
  IN  IF d > 1 /\ CharAt(step, d) = "."
      THEN From(step, RunEnd(step, d + 1, IsSpace)) ELSE step

RECURSIVE SelectNumbered(_)
\* the trimmed lines that start with a number followed by a dot
SelectNumbered(lines) ==
  IF Len(lines) = 0 THEN <<>>
  ELSE (IF IsNumberedLine(Trim(Head(lines))) THEN <<Trim(Head(lines))>> ELSE <<>>)
         \o SelectNumbered(Tail(lines))

stepLinesOf(content) == SelectNumbered(Split(content, "\n"))

\* the step unit of the step text stepContent at place i: parsed is what the
\* call of intelligentStepParser in parseSimpleStep returned
UnitOf(stepContent, i, parsed) ==
  [text |-> stepContent,
   intent |-> analyzeStepContext(Trim(ToLowerCase(stepContent))),
   depth |-> parsed.depth,
   overflow |-> parsed.overflow,
   actions |-> OrFallback(parsed, stepContent, i)]

\* what the loop of parseStepByStepPrompt does for the step text stepContent
ParsedUnit(dataDir, stepContent, i) ==
  UnitOf(stepContent, i, intelligentStepParser(dataDir, stepContent, i, 1))

StepUnit(dataDir, stepLines, i) ==
  ParsedUnit(dataDir, StripNumber(Trim(stepLines[i])), i)

UnitsOfLines(dataDir, stepLines) ==
  [i \in 1..Len(stepLines) |-> StepUnit(dataDir, stepLines, i)]

\* the step units of parseStepByStepPrompt, in the order it processes them
stepUnitsOf(dataDir, content) == UnitsOfLines(dataDir, stepLinesOf(content))

\* actions.push(...stepActions) over the step units
ActionsOfUnits(units) == Flatten([i \in 1..Len(units) |-> units[i].actions])

\* the same with the actions of each step in front of the actions of the
\* steps before it
ActionsOfUnitsReversed(units) ==
  Flatten([i \in 1..Len(units) |-> units[Len(units) + 1 - i].actions])

\* parseStepByStepPrompt pushing the actions of each step in front of the
\* actions of the steps before it
parseStepByStepPromptReversed(dataDir, content) ==
  ActionsOfUnitsReversed(stepUnitsOf(dataDir, content))

parseStepByStepPrompt(dataDir, content) ==
  ActionsOfUnits(stepUnitsOf(dataDir, content))

(***************************************************************************)
(* Pattern matching on the whole prompt.                                   *)
(***************************************************************************)

\* where new RegExp(`${field}\s+(?:as\s+)?"([^"]+)"`, 'i') matched at i puts
\* its group: <<from, to>>
ValueGroup(t, i, field) ==
  LET j == i + Len(field)
      s == RunEnd(t, j, IsSpace)
      a == RunEnd(t, s + 2, IsSpace)
      q == IF StartsAt(ToLowerCase(t), s, "as") /\ a > s + 2 /\ CharAt(t, a) = "\""
           THEN a ELSE s
      e == RunEnd(t, q + 1, NotQuote)
  IN  IF /\ StartsAt(ToLowerCase(t), i, field)
         /\ s > j
         /\ CharAt(t, q) = "\""
         /\ e > q + 1
         /\ e <= Len(t)
      THEN <<q + 1, e - 1>> ELSE <<>>

extractValue(content, field, defaultValue) ==
  IF \E i \in 1..Len(content) : ValueGroup(content, i, field) # <<>>
  THEN LET i == Min({i \in 1..Len(content) : ValueGroup(content, i, field) # <<>>})
       IN  SubSeq(content, ValueGroup(content, i, field)[1],
                  ValueGroup(content, i, field)[2])
  ELSE defaultValue

getActionPatterns(content) ==
  << [triggers |-> {"navigate", "open", "go to"},
      actions |-> <<NavigateAction(applicationUrl, "Navigate to application")>>],
     [triggers |-> {"login", "username", "password", "admin", "credential"},
      actions |-> << FillAction("username input field", userCredentials.username,
                                "Enter username"),
                     FillAction("password input field", userCredentials.password,
                                "Enter password"),
                     ClickAction("login button", "Click login button"),
                     WaitAction(3000, "Wait for login to complete") >>],
     [triggers |-> {"dashboard", "verify", "confirm"},
      actions |-> <<AssertAction("dashboard page", "visible",
                                 "Verify dashboard is displayed")>>],
     [triggers |-> {"pim", "employee"},
      actions |-> <<ClickAction("PIM navigation link", "Navigate to PIM")>>],
     [triggers |-> {"add", "employee", "first name", "last name"},
      actions |-> << ClickAction("Add Employee button", "Click Add Employee button"),
                     FillAction("first name input field",
                                extractValue(content, "first name", "John123"),
                                "Enter first name"),
                     FillAction("last name input field",
                                extractValue(content, "last name", "Doe456"),
                                "Enter last name"),
                     ClickAction("save employee button", "Save employee"),
                     WaitAction(2000, "Wait for employee to be saved"),
                     AssertAction("employee name display", "contains:John123 Doe456",
                                  "Verify employee name on profile") >>],
     [triggers |-> {"logout", "user icon", "sign out"},
      actions |-> << ClickAction("user dropdown menu", "Open user dropdown"),
                     ClickAction("logout button", "Click logout") >>] >>

matchesPattern(content, triggers) == \E t \in triggers : Includes(content, t)

\* the actions of every pattern one of whose triggers occurs in content
\* for (const pattern of patterns) if (matchesPattern) actions.push(...)
MatchedActions(content, patterns) ==
  Flatten([i \in 1..Len(patterns) |->
             IF matchesPattern(content, patterns[i].triggers)
             THEN patterns[i].actions ELSE <<>>])

\* the actions of every pattern one of whose triggers occurs in content
PatternActions(content) == MatchedActions(content, getActionPatterns(content))

\* if (actions.length === 0) actions.push(the default navigation)
OrDefaultAction(actions) ==
  IF Len(actions) = 0
  THEN <<NavigateAction(applicationUrl, "Navigate to application (default action)")>>
  ELSE actions

\* the branch parsePromptToActions takes for a prompt content
PromptPath(prompt) ==
  LET content == ToLowerCase(prompt)
  IN  IF isDataDrivenTest(content) THEN "data_driven"
      ELSE IF isStepByStepPrompt(content) THEN "steps"
      ELSE "patterns"

\* parsePromptToActions with content the lower-cased prompt
ActionsOfPrompt(dataDir, prompt, content) ==
  IF isDataDrivenTest(content)
  THEN generateDataDrivenActions(dataDir, prompt, 1)
  ELSE IF isStepByStepPrompt(content)
  THEN parseStepByStepPrompt(dataDir, prompt)
  ELSE OrDefaultAction(PatternActions(content))

parsePromptToActions(dataDir, prompt) ==
  ActionsOfPrompt(dataDir, prompt, ToLowerCase(prompt))

(***************************************************************************)
(* State.                                                                  *)
(*   testData                  the files of the test-data directory        *)
(*   promptContent, compiled   a prompt text and what parsePromptToActions *)
(*   recompiled                what a second call on the same text made    *)
(*                             made of it                                  *)
(*   options, prompts          ExecutorOptions and the result of           *)
(*                             getPrompts                                  *)
(*   phase, browsersToRun, batch, allResults, summary                      *)
(*                             the progress of execute and of one          *)
(*                             executeBrowserBatch call per browser        *)
(*   browser                   this.browser, the one MCPBrowser object of  *)
(*                             the executor                                *)
(***************************************************************************)

VARIABLES testData, promptContent, compiled, recompiled, options, prompts, phase,
          browsersToRun,
          browser, batch, allResults, summary,
          configFiles, configs, calls

vars == <<testData, promptContent, compiled, recompiled, options, prompts, phase,
          browsersToRun, browser, batch, allResults, summary,
          configFiles, configs, calls>>

\* the files under config/app-configs, the cache of the ConfigManager and
\* the loadConfig calls made so far
configVars == <<configFiles, configs, calls>>

compileVars == <<promptContent, compiled, recompiled>>

execVars == <<options, prompts, phase, browsersToRun, browser, batch,
              allResults, summary>>

(***************************************************************************)
(* Inputs.                                                                 *)
(***************************************************************************)

\* the most numbered steps a generated prompt has
MaxSteps == 2

\* the files the test-data directory may hold
LoginCsv ==
  [name |-> "loginData.csv", readable |-> TRUE,
   content |-> "Username,Password,Expected\nAdmin,admin123,Dashboard\nbob,wrong,Invalid credentials\n"]

HeaderOnlyCsv ==
  [name |-> "empty.csv", readable |-> TRUE, content |-> "username,password,expected\n"]

LockedCsv ==
  [name |-> "locked.csv", readable |-> FALSE, content |-> "username,password,expected\na,b,dashboard"]

\* rows with an outcome of each kind the expanders tell apart
OutcomesCsv ==
  [name |-> "outcomes.csv", readable |-> TRUE,
   content |-> "username,password,expected\nAdmin,admin123,DASHBOARD\ncarol,pw1,Error shown\ndave,x,Account locked"]

TestDataDirs == {{}, {LoginCsv, HeaderOnlyCsv, LockedCsv, OutcomesCsv}}

\* words of step texts: one keyword of each intent, a data-source token, and
\* words that carry no keyword
Words == {"open", "login", "enter", "credentials", "click", "verify", "wait",
          "users.csv", "report"}

Phrases ==
  Words \cup {a \o " " \o b : a \in Words, b \in Words}
        \cup {a \o " and " \o b : a \in Words, b \in Words}
        \cup {a \o " then " \o b : a \in Words, b \in Words}

\* step texts that exercise the extractors and the decomposition
SpecialSteps ==
  { "Click the PIM link", "click the pim link", "CLICK SAVE", "click add button",
    "Navigate to https://example.test/start", "go to the page", "sign in",
    "Login with username: bob password: secret",
    "Login with username and password",
    "Login as username: \"carol\" password: \"pw1\"",
    "Enter first name: \"John\" and last name: \"Doe\"",
    "wait 5 seconds", "wait 300ms", "wait 5 seconds for items", "pause",
    "wait 500 milliseconds",
    "verify dashboard", "check the employee profile",
    "alpha beta gamma delta epsilon zeta eta theta iota kappa lambda",
    "Report AND Summary", "report and Summary THEN Total",
    "report and alpha beta gamma delta epsilon zeta eta theta iota kappa lambda",
    "load loginData.csv", "load locked.csv", "tap", "summary" }

StepTexts == Phrases \cup SpecialSteps

\* steps used to build prompts of several numbered lines
ShortSteps == {"open", "login", "enter", "click save", "report", "users.csv"}

RECURSIVE NumberedPrompts(_)
\* the prompts "1. s1\n2. s2 ..." of n numbered lines over ShortSteps
NumberedPrompts(n) ==
  IF n = 1 THEN {"1. " \o s : s \in ShortSteps}
  ELSE {p \o "\n" \o ToString(n) \o ". " \o s :
          p \in NumberedPrompts(n - 1), s \in ShortSteps}

\* prompts whose numbered lines come with a preamble, other numbers,
\* indentation or lines that are not steps
FramedPrompts ==
  { "Smoke test\n3. click login\n4. verify dashboard",
    "Smoke test\n1. click login\n2. verify dashboard",
    "Title: Orders\n\n  7. open\nnote\n  8. report",
    "10. click\n20. wait",
    "Intro\n11. click save",
    "Use version 1.5 of the app",
    "Check build 2.0 and report",
    "Regression using loginData.csv\n1. open\n2. login",
    "1. open\n2. Username: Admin",
    "1. open\n2. load loginData.csv\n3. verify dashboard",
    "1. click save then enter credentials" }

\* data-driven prompts
DataPrompts ==
  { "Run the login test with data from missing.csv",
    "Run the login test with loginData.csv",
    "Run the login test with empty.csv",
    "Run the login test with locked.csv",
    "Run the login test with outcomes.csv",
    "Run the login test with outcomes.csv and logout after each login",
    "Login and logout with every row of loginData.csv",
    "Run a data-driven login test",
    "Use the external dataset",
    "- Username: Admin, Password: admin123, Expected: Dashboard visible",
    "- Username: Admin, Password: admin123, Expected: Dashboard visible\n- Username: bob, Password: wrong, Expected: Invalid credentials\nthen logout",
    "Username: Admin",
    "Login with the following dataset:",
    "test data:\nusername: a\npassword: b\nexpected: dashboard\nusername: c\npassword: d",
    "test data: none" }

\* the most dataset rows a generated inline prompt has
MaxRows == 2

\* the rows of inline datasets: an outcome of each kind the expanders tell
\* apart, in both letter cases
TripleRows ==
  { [username |-> "Admin", password |-> "admin123", expected |-> "Dashboard visible"],
    [username |-> "bob", password |-> "wrong", expected |-> "Invalid credentials"],
    [username |-> "Carol", password |-> "pw1", expected |-> "ERROR shown"],
    [username |-> "dave", password |-> "Admin", expected |-> "Account locked"] }

\* a row written as one line of an inline dataset
TripleLine(r) ==
  "- Username: " \o r.username \o ", Password: " \o r.password
    \o ", Expected: " \o r.expected

RECURSIVE TripleBlocks(_)
\* the texts of n dataset lines
TripleBlocks(n) ==
  IF n = 1 THEN {TripleLine(r) : r \in TripleRows}
  ELSE {t \o "\n" \o TripleLine(r) : t \in TripleBlocks(n - 1), r \in TripleRows}

\* inline data-driven prompts: a heading or none, the dataset lines, and a
\* closing line that mentions logout or none
InlinePrompts ==
  {h \o t \o c : h \in {"", "Login with the following dataset:\n"},
                 t \in UNION {TripleBlocks(n) : n \in 1..MaxRows},
                 c \in {"", "\nthen Logout"}}

\* the most records a generated block prompt has
MaxRecords == 2

\* records of a dataset written with one label per line: "" for a field the
\* record leaves out
BlockRecords ==
  { [username |-> "a", password |-> "b", expected |-> "dashboard"],
    [username |-> "c", password |-> "d", expected |-> "invalid"],
    [username |-> "e", password |-> "f", expected |-> ""],
    [username |-> "g", password |-> "", expected |-> "dashboard"],
    [username |-> "", password |-> "h", expected |-> "invalid"] }

\* the line of a field, nothing for a field left out
LabelLine(label, value) == IF value = "" THEN "" ELSE "\n" \o label \o ": " \o value

\* a record as a block of label lines after an empty line
RecordBlock(r) ==
  "\n" \o LabelLine("username", r.username) \o LabelLine("password", r.password)
       \o LabelLine("expected", r.expected)

RECURSIVE RecordBlocks(_)
\* the texts of n records
RecordBlocks(n) ==
  IF n = 0 THEN {""}
  ELSE {t \o RecordBlock(r) : t \in RecordBlocks(n - 1), r \in BlockRecords}

\* prompts with a dataset written as blocks of label lines under a heading
BlockPrompts ==
  {"Login with test data:" \o t : t \in UNION {RecordBlocks(n) : n \in 1..MaxRecords}}

\* prompt files that open with the metadata lines Title: and Tags:
MetadataPrompts ==
  {"Title: " \o t \o "\nTags: " \o g \o "\n\n" \o b :
     t \in {"Smoke", "Login test"},
     g \in {"smoke", "regression, data-driven"},
     b \in {"1. open\n2. click save", "verify dashboard", "logout"}}

\* the letter casings of a label of an inline dataset
LabelCasings(label) ==
  IF label = "username" THEN {"username", "Username", "USERNAME"}
  ELSE IF label = "password" THEN {"password", "Password", "PASSWORD"}
  ELSE {"expected", "Expected", "EXPECTED"}

\* one well-formed triple line, with or without the list dash, in every
\* casing of its three labels; its values are in no CSV file
CasedPrompts ==
  {d \o u \o ": zed, " \o p \o ": zpw, " \o e \o ": Dashboard visible" :
     d \in {"", "- "}, u \in LabelCasings("username"),
     p \in LabelCasings("password"), e \in LabelCasings("expected")}

PromptTexts ==
  BlockPrompts \cup MetadataPrompts \cup CasedPrompts \cup
  {"1. " \o s : s \in StepTexts}
    \cup UNION {NumberedPrompts(n) : n \in 2..MaxSteps}
    \cup FramedPrompts \cup DataPrompts \cup InlinePrompts \cup StepTexts
    \cup {"", " ", "logout"}

(***************************************************************************)
(* The compiler as one step: parsePromptToActions on promptContent.        *)
(***************************************************************************)

NotCompiled == [done |-> FALSE, path |-> "", units |-> <<>>, actions |-> <<>>]

\* what a call of parsePromptToActions returns, with the branch it took
\* and the step units it went through
CompileResult(dataDir, prompt, path) ==
  [done |-> TRUE,
   path |-> path,
   units |-> IF path = "steps" THEN stepUnitsOf(dataDir, prompt) ELSE <<>>,
   actions |-> parsePromptToActions(dataDir, prompt)]

\* the caller keeps the result: of the first call in compiled, of the
\* second in recompiled
Returned(result) ==
  IF ~compiled.done THEN compiled' = result /\ UNCHANGED recompiled
  ELSE recompiled' = result /\ UNCHANGED compiled

\* parsePromptToActions deleting the files of the test-data directory once
\* it has read them
ParsePromptToActionsConsumingData ==
  /\ ~recompiled.done
  /\ Returned(CompileResult(testData, promptContent, PromptPath(promptContent)))
  /\ testData' = {}
  /\ UNCHANGED <<configVars, promptContent, execVars>>

ParsePromptToActions ==
  /\ ~recompiled.done
  /\ Returned(CompileResult(testData, promptContent, PromptPath(promptContent)))
  /\ UNCHANGED <<configVars, testData, promptContent, execVars>>

(***************************************************************************)
(* The executor.                                                           *)
(***************************************************************************)

\* the longest options.browsers list
MaxBrowsers == 2

\* the most prompt files a run loads
MaxPrompts == 2

supportedBrowsers == {"chromium", "firefox", "webkit", "chrome", "edge"}

\* --browsers lists a user may pass (supported names, unsupported names,
\* a name given twice), cut to MaxBrowsers names
BrowserRequests ==
  { <<"chromium", "firefox", "webkit", "edge">>,
    <<"webkit", "opera", "chrome", "firefox">>,
    <<"opera", "safari", "ie", "lynx">>,
    <<"firefox", "firefox", "netscape", "firefox">> }

BrowserLists ==
  {SubSeq(r, 1, n) : r \in BrowserRequests, n \in 0..MaxBrowsers}

\* prompt files: two numbered steps, a data-driven prompt whose CSV file is
\* missing, one numbered step
OpenLogoutPrompt ==
  [file |-> "open-logout.txt", content |-> "1. open the app\n2. click logout"]

MissingDataPrompt ==
  [file |-> "missing-data.txt",
   content |-> "Run the login test with data from missing.csv"]

PausePrompt == [file |-> "pause.txt", content |-> "1. pause"]

\* what the prompts directory may hold, in the order getPrompts returns it
PromptDirs ==
  { <<OpenLogoutPrompt, PausePrompt, MissingDataPrompt>>,
    <<MissingDataPrompt, OpenLogoutPrompt, PausePrompt>> }

PromptLists ==
  {SubSeq(d, 1, n) : d \in PromptDirs, n \in 0..MaxPrompts}

\* the test-data directory of the runs of execute: no file
NoTestData == {}

RECURSIVE CompileEach(_)
\* parsePromptToActions on each file of a set of prompt files
CompileEach(files) ==
  IF files = {} THEN <<>>
  ELSE LET f == CHOOSE f \in files : TRUE
       IN  (f :> parsePromptToActions(NoTestData, f.content))
             @@ CompileEach(files \ {f})

\* parsePromptToActions on each prompt file, which execute neither rewrites
\* nor reads differently from one call to the next
compiledPrompts == CompileEach({OpenLogoutPrompt, MissingDataPrompt, PausePrompt})

RECURSIVE SelectSupported(_)
\* options.browsers.filter(browser => this.supportedBrowsers.includes(browser))
SelectSupported(list) ==
  IF Len(list) = 0 THEN <<>>
  ELSE (IF Head(list) \in supportedBrowsers THEN <<Head(list)>> ELSE <<>>)
         \o SelectSupported(Tail(list))

getBrowsersToRun(opts) ==
  IF Len(opts.browsers) > 0 /\ Len(SelectSupported(opts.browsers)) # 0
  THEN SelectSupported(opts.browsers)
  ELSE <<"chromium">>

\* this.browser after the constructor
NoBrowser == [isInitialized |-> FALSE, isHeaded |-> FALSE, browserType |-> Undefined]

\* the state assignments of cleanup()
cleanup(b) ==
  IF b.isInitialized
  THEN [b EXCEPT !.isInitialized = FALSE, !.browserType = Undefined]
  ELSE b

\* the state assignments initializeBrowser makes once the browser is clean
SetUpBrowser(b, headed, browserType) ==
  [b EXCEPT !.isHeaded = headed, !.browserType = browserType, !.isInitialized = TRUE]

\* an executeBrowserBatch call that has not been made yet
IdleBatch ==
  [pc |-> "idle", prompt |-> 1, i |-> 0, actions |-> <<>>, steps |-> <<>>,
   results |-> <<>>]

\* whether execute runs the batches through Promise.all
IsParallel == options.parallel /\ Len(browsersToRun) > 1

Batches == 1..Len(browsersToRun)

\* MayStart with every batch called at once, whatever the mode
MayStartAtOnce(b) ==
  /\ phase = "running"
  /\ batch[b].pc = "idle"
  /\ \A c \in 1..(b - 1) : batch[c].pc # "idle"

\* whether the batch of browser b may take a step now: in sequential mode
\* the batches before it have returned; in parallel mode map() has called
\* every batch before any continuation runs
MayStart(b) ==
  /\ phase = "running"
  /\ batch[b].pc = "idle"
  /\ \A c \in 1..(b - 1) : IF IsParallel THEN batch[c].pc # "idle"
                                         ELSE batch[c].pc = "done"

MayContinue(b) ==
  /\ phase = "running"
  /\ \A c \in Batches : IsParallel => batch[c].pc # "idle"

NoSummary == [total |-> 0, passed |-> 0, failed |-> 0, browsers |-> <<>>]

\* execute up to the first await of a batch: load the prompts, pick the
\* browsers
Execute ==
  /\ phase = "created"
  /\ IF Len(prompts) = 0
     THEN /\ phase' = "done"
          /\ UNCHANGED <<browsersToRun, batch>>
     ELSE /\ phase' = "running"
          /\ browsersToRun' = getBrowsersToRun(options)
          /\ batch' = [b \in 1..Len(getBrowsersToRun(options)) |-> IdleBatch]
  /\ UNCHANGED <<configVars, testData, compileVars, options, prompts, browser, allResults, summary>>

\* executeBrowserBatch up to its first await: initializeBrowser cleans up a
\* browser that is initialized (and awaits), or sets the browser up
BatchStart(b) ==
  /\ MayStart(b)
  /\ IF browser.isInitialized
     THEN /\ browser' = cleanup(browser)
          /\ batch' = [batch EXCEPT ![b].pc = "init_cleanup"]
     ELSE /\ browser' = SetUpBrowser(browser, options.headed, browsersToRun[b])
          /\ batch' = [batch EXCEPT ![b].pc = "prompt"]
  /\ UNCHANGED <<configVars, testData, compileVars, options, prompts, phase, browsersToRun,
                 allResults, summary>>

\* initializeBrowser after `await this.cleanup()`
InitAfterCleanup(b) ==
  /\ MayContinue(b)
  /\ batch[b].pc = "init_cleanup"
  /\ browser' = SetUpBrowser(browser, options.headed, browsersToRun[b])
  /\ batch' = [batch EXCEPT ![b].pc = "prompt"]
  /\ UNCHANGED <<configVars, testData, compileVars, options, prompts, phase, browsersToRun,
                 allResults, summary>>

\* the PromptResult executePromptDirectly returns from its try block
SuccessResult(prompt, steps, actions, browserType) ==
  [file |-> prompt.file, success |-> TRUE, steps |-> steps,
   totalSteps |-> Len(actions),
   passedSteps |-> Cardinality({j \in 1..Len(steps) : steps[j].status = "passed"}),
   failedSteps |-> Cardinality({j \in 1..Len(steps) : steps[j].status = "failed"}),
   browser |-> browserType]

\* the PromptResult executePromptDirectly returns from its catch block
FailureResult(prompt, steps, browserType) ==
  [file |-> prompt.file, success |-> FALSE, steps |-> steps,
   totalSteps |-> Len(steps),
   passedSteps |-> Cardinality({j \in 1..Len(steps) : steps[j].status = "passed"}),
   failedSteps |-> Cardinality({j \in 1..Len(steps) : steps[j].status = "failed"}),
   browser |-> browserType]

StepResult(i, action, status) ==
  [stepNumber |-> i + 1, description |-> action.description,
   action |-> action.type, status |-> status]

\* batch after executePromptDirectly compiled prompt into actions: a prompt
\* without actions returns at once
AfterCompile(b, prompt, actions) ==
  IF Len(actions) = 0
  THEN [batch EXCEPT
          ![b].results = Append(@, SuccessResult(prompt, <<>>, actions,
                                                 browsersToRun[b])),
          ![b].prompt = @ + 1]
  ELSE [batch EXCEPT ![b].pc = "action", ![b].actions = actions,
                     ![b].steps = <<>>, ![b].i = 0]

\* the loop of executeBrowserBatch calls executePromptDirectly, which
\* compiles the prompt
PromptStart(b) ==
  /\ MayContinue(b)
  /\ batch[b].pc = "prompt"
  /\ batch[b].prompt <= Len(prompts)
  /\ batch' = AfterCompile(b, prompts[batch[b].prompt],
                           compiledPrompts[prompts[batch[b].prompt]])
  /\ UNCHANGED <<configVars, testData, compileVars, options, prompts, phase, browsersToRun,
                 browser, allResults, summary>>

\* executeBrowserAction up to its first await: with the browser not
\* initialized it runs initializeBrowser(false, browserType || 'chromium')
\* and awaits it, otherwise it calls the MCP function of the action
ActionStart(b) ==
  /\ MayContinue(b)
  /\ batch[b].pc = "action"
  /\ IF ~browser.isInitialized
     THEN /\ browser' = SetUpBrowser(browser, FALSE,
                          IF browser.browserType = Undefined THEN "chromium"
                          ELSE browser.browserType)
          /\ batch' = [batch EXCEPT ![b].pc = "reinit"]
     ELSE /\ batch' = [batch EXCEPT ![b].pc = "acting"]
          /\ UNCHANGED browser
  /\ UNCHANGED <<configVars, testData, compileVars, options, prompts, phase, browsersToRun,
                 allResults, summary>>

\* executeBrowserAction after `await this.initializeBrowser(...)`: it calls
\* the MCP function of the action
ActionAfterReinit(b) ==
  /\ MayContinue(b)
  /\ batch[b].pc = "reinit"
  /\ batch' = [batch EXCEPT ![b].pc = "acting"]
  /\ UNCHANGED <<configVars, testData, compileVars, options, prompts, phase, browsersToRun,
                 browser, allResults, summary>>

\* the batch after the step i (0-based) of its prompt passed
AfterPassed(bt, prompt, browserType) ==
  LET steps == Append(bt.steps, StepResult(bt.i, bt.actions[bt.i + 1], "passed"))
  IN  IF bt.i + 1 < Len(bt.actions)
      THEN [bt EXCEPT !.pc = "action", !.steps = steps, !.i = @ + 1]
      ELSE [bt EXCEPT !.pc = "prompt", !.steps = steps, !.prompt = @ + 1,
                      !.results = Append(@, SuccessResult(prompt, steps, bt.actions,
                                                          browserType))]

\* AfterFailed without the rethrow: the loop goes on to the next action
AfterFailedGoingOn(bt, prompt, browserType) ==
  LET steps == Append(bt.steps, StepResult(bt.i, bt.actions[bt.i + 1], "failed"))
  IN  IF bt.i + 1 < Len(bt.actions)
      THEN [bt EXCEPT !.pc = "action", !.steps = steps, !.i = @ + 1]
      ELSE [bt EXCEPT !.pc = "prompt", !.steps = steps, !.prompt = @ + 1,
                      !.results = Append(@, FailureResult(prompt, steps, browserType))]

\* AfterFailed with the error leaving executePromptDirectly and the loop of
\* the batch: the prompts after the failing one are not run
AfterFailedLeavingBatch(bt, prompt, browserType) ==
  LET steps == Append(bt.steps, StepResult(bt.i, bt.actions[bt.i + 1], "failed"))
  IN  [bt EXCEPT !.pc = "prompt", !.steps = steps, !.prompt = Len(prompts) + 1,
                 !.results = Append(@, FailureResult(prompt, steps, browserType))]

\* the batch after the step i (0-based) of its prompt threw: the step is
\* recorded as failed and rethrown, the outer catch builds the result
AfterFailed(bt, prompt, browserType) ==
  LET steps == Append(bt.steps, StepResult(bt.i, bt.actions[bt.i + 1], "failed"))
  IN  [bt EXCEPT !.pc = "prompt", !.steps = steps, !.prompt = @ + 1,
                 !.results = Append(@, FailureResult(prompt, steps, browserType))]

\* the MCP function of the action resolves
ActionPassed(b) ==
  /\ MayContinue(b)
  /\ batch[b].pc = "acting"
  /\ batch' = [batch EXCEPT ![b] = AfterPassed(@, prompts[@.prompt], browsersToRun[b])]
  /\ UNCHANGED <<configVars, testData, compileVars, options, prompts, phase, browsersToRun,
                 browser, allResults, summary>>

\* the MCP function of the action throws
ActionFailed(b) ==
  /\ MayContinue(b)
  /\ batch[b].pc = "acting"
  /\ batch' = [batch EXCEPT ![b] = AfterFailed(@, prompts[@.prompt], browsersToRun[b])]
  /\ UNCHANGED <<configVars, testData, compileVars, options, prompts, phase, browsersToRun,
                 browser, allResults, summary>>

\* executeBrowserBatch after its loop: cleanup() and the await on it
BatchCleanup(b) ==
  /\ MayContinue(b)
  /\ batch[b].pc = "prompt"
  /\ batch[b].prompt > Len(prompts)
  /\ browser' = cleanup(browser)
  /\ batch' = [batch EXCEPT ![b].pc = "cleaned"]
  /\ UNCHANGED <<configVars, testData, compileVars, options, prompts, phase, browsersToRun,
                 allResults, summary>>

\* executeBrowserBatch returns its results
BatchReturn(b) ==
  /\ MayContinue(b)
  /\ batch[b].pc = "cleaned"
  /\ batch' = [batch EXCEPT ![b].pc = "done"]
  /\ UNCHANGED <<configVars, testData, compileVars, options, prompts, phase, browsersToRun,
                 browser, allResults, summary>>

calculateBrowserStats(results, browsers) ==
  [name \in {browsers[j] : j \in 1..Len(browsers)} |->
     LET browserResults == {j \in 1..Len(results) : results[j].browser = name}
     IN  [total |-> Cardinality(browserResults),
          passed |-> Cardinality({j \in browserResults : results[j].success}),
          failed |-> Cardinality({j \in browserResults : ~results[j].success})]]

\* execute after every batch returned: the results in browser order and the
\* summary
Summarize ==
  /\ phase = "running"
  /\ \A b \in Batches : batch[b].pc = "done"
  /\ LET results == Flatten([b \in Batches |-> batch[b].results])
     IN  /\ allResults' = results
         /\ summary' = [total |-> Len(results),
                        passed |-> Cardinality({j \in 1..Len(results) : results[j].success}),
                        failed |-> Cardinality({j \in 1..Len(results) : ~results[j].success}),
                        browsers |-> browsersToRun,
                        browserResults |-> calculateBrowserStats(results, browsersToRun)]
  /\ phase' = "done"
  /\ UNCHANGED <<configVars, testData, compileVars, options, prompts, browsersToRun, browser, batch>>

(***************************************************************************)
(* The ConfigManager: loadConfig and its cache.                            *)
(***************************************************************************)

\* the most loadConfig calls of a run
MaxLoads == 3

\* application names passed to loadConfig
AppNames == {"orangehrm", "OrangeHRM", "shop"}

\* the files ./config/app-configs/<name>.json the names lead to
ConfigFileNames == {ToLowerCase(n) : n \in AppNames}

\* what such a file may be: absent, not JSON, or one of two configurations
ConfigFileStates == {"missing", "invalid", "v1", "v2"}

\* whether readFile and JSON.parse succeed on a file
Loadable(file) == file \notin {"missing", "invalid"}

\* the calls that have returned a configuration
ReturnedCalls == {j \in DOMAIN calls : calls[j].pc = "returned"}

\* loadConfig up to its first await: a cached configuration is returned at
\* once, otherwise the file is going to be read.  The callers of this
\* repository never have two calls for one name under way.
LoadConfigStart(appName) ==
  /\ Len(calls) < MaxLoads
  /\ \A j \in DOMAIN calls :
       calls[j].pc = "reading" => calls[j].appName # appName
  /\ calls' = Append(calls,
       IF appName \in DOMAIN configs
       THEN [appName |-> appName, pc |-> "returned", config |-> configs[appName],
             readFile |-> FALSE, after |-> ReturnedCalls,
             before |-> configs, table |-> configs]
       ELSE [appName |-> appName, pc |-> "reading", config |-> Undefined,
             readFile |-> FALSE, after |-> ReturnedCalls,
             before |-> configs, table |-> configs])
  /\ UNCHANGED <<configFiles, configs, testData, compileVars, execVars>>

\* the call k with its state after the await of readFile
ReadCall(call, table, file) ==
  IF Loadable(file)
  THEN [call EXCEPT !.pc = "returned", !.config = file, !.readFile = TRUE,
                    !.before = table,
                    !.table = (call.appName :> file) @@ table]
  ELSE [call EXCEPT !.pc = "threw", !.readFile = TRUE,
                    !.before = table, !.table = table]

\* loadConfig after the await of readFile when it puts nothing in the cache
LoadConfigFinishUncached(k) ==
  /\ calls[k].pc = "reading"
  /\ calls' = [calls EXCEPT ![k] =
       [ReadCall(@, configs, configFiles[ToLowerCase(@.appName)])
          EXCEPT !.table = configs]]
  /\ UNCHANGED <<configFiles, configs, testData, compileVars, execVars>>

\* loadConfig after the await of readFile: JSON.parse and configs.set, or
\* the throw of the catch block
LoadConfigFinish(k) ==
  /\ calls[k].pc = "reading"
  /\ calls' = [calls EXCEPT ![k] =
       ReadCall(@, configs, configFiles[ToLowerCase(@.appName)])]
  /\ configs' = calls'[k].table
  /\ UNCHANGED <<configFiles, testData, compileVars, execVars>>

\* a configuration file is written, replaced or removed between two calls
RewriteFile(name, file) ==
  /\ Len(calls) < MaxLoads
  /\ configFiles[name] # file
  /\ configFiles' = [configFiles EXCEPT ![name] = file]
  /\ UNCHANGED <<configs, calls, testData, compileVars, execVars>>

\* the configuration of the runs of execute: loaded, with no call under way
ConfigIdle ==
  /\ configFiles = [name \in ConfigFileNames |-> "v1"]
  /\ configs = ("orangehrm" :> "v1")
  /\ calls = <<>>

(***************************************************************************)
(* Specifications.                                                         *)
(***************************************************************************)

\* the executor constructed and not run; no prompt under compilation
ExecIdle ==
  /\ options = [parallel |-> FALSE, headed |-> FALSE, browsers |-> <<>>]
  /\ prompts = <<>>
  /\ phase = "unused"
  /\ browsersToRun = <<>>
  /\ browser = NoBrowser
  /\ batch = <<>>
  /\ allResults = <<>>
  /\ summary = NoSummary

InitCompile ==
  /\ testData \in TestDataDirs
  /\ promptContent \in PromptTexts
  /\ compiled = NotCompiled
  /\ recompiled = NotCompiled
  /\ ExecIdle
  /\ ConfigIdle

NextCompile == ParsePromptToActions

SpecCompile == InitCompile /\ [][NextCompile]_vars

Init ==
  /\ testData = NoTestData
  /\ promptContent = ""
  /\ compiled = NotCompiled
  /\ recompiled = NotCompiled
  /\ options \in [parallel : BOOLEAN, headed : BOOLEAN, browsers : BrowserLists]
  /\ prompts \in PromptLists
  /\ phase = "created"
  /\ browsersToRun = <<>>
  /\ browser = NoBrowser
  /\ batch = <<>>
  /\ allResults = <<>>
  /\ summary = NoSummary
  /\ ConfigIdle

Next ==
  \/ Execute
  \/ \E b \in Batches : BatchStart(b)
  \/ \E b \in Batches : InitAfterCleanup(b)
  \/ \E b \in Batches : PromptStart(b)
  \/ \E b \in Batches : ActionStart(b)
  \/ \E b \in Batches : ActionAfterReinit(b)
  \/ \E b \in Batches : ActionPassed(b)
  \/ \E b \in Batches : ActionFailed(b)
  \/ \E b \in Batches : BatchCleanup(b)
  \/ \E b \in Batches : BatchReturn(b)
  \/ Summarize

Spec == Init /\ [][Next]_vars

\* a new ConfigManager over any state of the configuration files
InitConfig ==
  /\ configFiles \in [ConfigFileNames -> ConfigFileStates]
  /\ configs = <<>>
  /\ calls = <<>>
  /\ testData = NoTestData
  /\ promptContent = ""
  /\ compiled = NotCompiled
  /\ recompiled = NotCompiled
  /\ ExecIdle

NextConfig ==
  \/ \E appName \in AppNames : LoadConfigStart(appName)
  \/ \E k \in DOMAIN calls : LoadConfigFinish(k)
  \/ \E name \in ConfigFileNames, file \in ConfigFileStates : RewriteFile(name, file)

SpecConfig == InitConfig /\ [][NextConfig]_vars

(***************************************************************************)
(* Properties of the compiler, checked under SpecCompile.                  *)
(***************************************************************************)

\* the step units of the compiled prompt
Units == DOMAIN compiled.units

\* the lower-cased, trimmed text the classifier sees for unit i
UnitText(i) == Trim(ToLowerCase(compiled.units[i].text))

\* C1: for every non-empty prompt text, parsePromptToActions returns a
\* non-empty action sequence, whichever path is taken.
C1_NonEmptyPromptCompiles ==
  compiled.done /\ promptContent # "" => Len(compiled.actions) > 0

\* a priority table: the intents in the order they are tried, each with its
\* keywords
PriorityTable(loginKeywords) ==
  << [intent |-> "navigate", keywords |-> {"navigate", "open", "go to", "visit"}],
     [intent |-> "login", keywords |-> loginKeywords],
     [intent |-> "fill_form", keywords |-> {"enter", "input", "type", "fill", "provide"}],
     [intent |-> "click_element", keywords |-> {"click", "press", "select", "choose", "tap"}],
     [intent |-> "verify_element",
      keywords |-> {"verify", "check", "confirm", "validate", "assert"}],
     [intent |-> "wait_action", keywords |-> {"wait", "pause", "delay"}] >>

\* the rows of a table with a keyword in the text
Matching(table, text) ==
  {r \in 1..Len(table) : \E k \in table[r].keywords : Includes(text, k)}

\* the intent of the first matching row, rest when no row matches
FirstMatch(table, text, rest) ==
  IF Matching(table, text) = {} THEN rest
  ELSE table[Min(Matching(table, text))].intent

\* the order as the claim states it
ClaimedIntent(text) ==
  FirstMatch(PriorityTable({"login", "sign in", "authenticate"}), text,
             IF isComplexWorkflow(text) THEN "complex_workflow" ELSE "unknown")

\* the order with "enter credentials" among the login keywords and the
\* data-driven markers tried after the compound clause
AmendedIntent(text) ==
  FirstMatch(PriorityTable({"login", "sign in", "authenticate", "enter credentials"}),
             text,
             IF isComplexWorkflow(text) THEN "complex_workflow"
             ELSE IF isDataDrivenTest(text) THEN "data_driven_test"
             ELSE "unknown")

C6_DepthAtMostTwo ==
  compiled.done =>
    \A i \in Units : compiled.units[i].depth <= 2 /\ ~compiled.units[i].overflow

CsvUnavailable ==
  /\ compiled.path = "data_driven"
  /\ ~hasInlineDatasets(promptContent)
  /\ \A f \in testData : f.name = extractCSVFileName(promptContent) => ~f.readable

\* one login with the configured default credentials
IsDefaultLoginBlock(actions) ==
  /\ Cardinality({j \in 1..Len(actions) :
                    /\ actions[j].type = "fill"
                    /\ actions[j].value = userCredentials.username}) = 1
  /\ Cardinality({j \in 1..Len(actions) :
                    /\ actions[j].type = "fill"
                    /\ actions[j].value = userCredentials.password}) = 1
  /\ Cardinality({j \in 1..Len(actions) : actions[j].type = "click"}) = 1

\* C8: a data-driven prompt whose CSV file is missing or unreadable compiles
\* to exactly one default-credential login block.
C8_MissingCsvFallsBackToLogin ==
  compiled.done /\ CsvUnavailable => IsDefaultLoginBlock(compiled.actions)

\* the lines of a text that match ^\d+\.\s once trimmed
NumberedLines(text) ==
  {j \in 1..Len(Split(text, "\n")) : IsNumberedLine(Trim(Split(text, "\n")[j]))}

\* C9: a prompt with N >= 1 numbered lines is compiled as numbered steps,
\* with exactly those N lines as step units.
C9_NumberedLinesAreTheSteps ==
  compiled.done /\ NumberedLines(promptContent) # {} =>
    /\ compiled.path = "steps"
    /\ Len(compiled.units) = Cardinality(NumberedLines(promptContent))

RECURSIVE ActionsBefore(_)
\* how many actions the steps before step i compiled to
ActionsBefore(i) ==
  IF i <= 1 THEN 0
  ELSE ActionsBefore(i - 1) + Len(compiled.units[i - 1].actions)

\* the step number a description starts with, 0 when it has none
StepOf(description) ==
  IF StartsAt(description, 1, "Step ")
  THEN ParseInt(SubSeq(description, 6, RunEnd(description, 6, IsDigit) - 1))
  ELSE 0

RECURSIVE Ascending(_)
Ascending(S) == IF S = {} THEN <<>> ELSE <<Min(S)>> \o Ascending(S \ {Min(S)})

RECURSIVE RowsAmong(_)
\* the dataset rows written on the lines, in the order of the lines
RowsAmong(lines) ==
  IF Len(lines) = 0 THEN <<>>
  ELSE (IF \E r \in TripleRows : Head(lines) = TripleLine(r)
        THEN <<CHOOSE r \in TripleRows : Head(lines) = TripleLine(r)>>
        ELSE <<>>) \o RowsAmong(Tail(lines))

\* the well-formed triples of the compiled prompt, in order of appearance
WrittenRows == RowsAmong(Split(promptContent, "\n"))

\* where the row subsequences of the compiled actions start: each row opens
\* with the navigation to the login page
RowStarts == Ascending({i \in 1..Len(compiled.actions) :
                          compiled.actions[i].type = "navigate"})

\* the k-th row subsequence
RowActions(k) ==
  SubSeq(compiled.actions, RowStarts[k],
         IF k < Len(RowStarts) THEN RowStarts[k + 1] - 1 ELSE Len(compiled.actions))

\* how many actions of a sequence satisfy Is
CountOf(actions, Is(_)) == Cardinality({i \in 1..Len(actions) : Is(actions[i])})

\* C11: inline text with N well-formed triples compiles to N row
\* subsequences in order of appearance, each with exactly one fill of the
\* username field with the row's username, exactly one fill of the password
\* field with the row's password and exactly one click of the login button.
C11_OneRowPerTriple ==
  compiled.done /\ Len(WrittenRows) > 0 =>
    /\ Len(RowStarts) = Len(WrittenRows)
    /\ RowStarts[1] = 1
    /\ \A k \in 1..Len(WrittenRows) :
         /\ CountOf(RowActions(k), LAMBDA a : a.type = "fill"
                                     /\ a.element = "username input field") = 1
         /\ CountOf(RowActions(k), LAMBDA a : a.type = "fill"
                                     /\ a.element = "username input field"
                                     /\ a.value = WrittenRows[k].username) = 1
         /\ CountOf(RowActions(k), LAMBDA a : a.type = "fill"
                                     /\ a.element = "password input field") = 1
         /\ CountOf(RowActions(k), LAMBDA a : a.type = "fill"
                                     /\ a.element = "password input field"
                                     /\ a.value = WrittenRows[k].password) = 1
         /\ CountOf(RowActions(k), LAMBDA a : a.type = "click"
                                     /\ a.element = "login button") = 1

\* two different triples under a heading were compiled
C11_Witness ==
  /\ compiled.done
  /\ Len(WrittenRows) = 2
  /\ WrittenRows[1] # WrittenRows[2]
  /\ Len(Split(promptContent, "\n")) > 2
  /\ Len(RowStarts) = 2

\* the dataset the expander of the compiled prompt works on
Dataset ==
  IF hasInlineDatasets(promptContent) THEN extractInlineDatasets(promptContent)
  ELSE readCSVData(testData, extractCSVFileName(promptContent))

\* row.expected of the k-th row of the dataset
RowExpected(k) ==
  IF hasInlineDatasets(promptContent) THEN Dataset[k].expected
  ELSE Either(Dataset[k], "Expected", "expected")

\* a data-driven prompt with at least one row was compiled, to one row
\* subsequence per row
RowsCompiled ==
  /\ compiled.done
  /\ compiled.path = "data_driven"
  /\ Len(Dataset) > 0
  /\ Len(RowStarts) = Len(Dataset)
  /\ RowStarts[1] = 1

\* the asserts of a sequence as <<element, condition>>, in order
RECURSIVE AssertsOf(_)
AssertsOf(actions) ==
  IF Len(actions) = 0 THEN <<>>
  ELSE (IF Head(actions).type = "assert"
        THEN <<(<<Head(actions).element, Head(actions).condition>>)>> ELSE <<>>)
         \o AssertsOf(Tail(actions))

\* the asserts the rule of the claim gives a row
ClaimedAsserts(expected) ==
  IF Includes(ToLowerCase(expected), "dashboard")
  THEN <<(<<"dashboard page", "visible">>)>>
  ELSE IF Includes(ToLowerCase(expected), "invalid")
            \/ Includes(ToLowerCase(expected), "error")
  THEN <<(<<"error message", "contains:Invalid credentials">>)>>
  ELSE <<>>

\* C12: for every dataset row, inline or from a CSV file, the assert is
\* chosen from row.expected without regard to letter case: the dashboard
\* assert for "dashboard", else the error-message assert for "invalid" or
\* "error", else none; never more than one assert per row.
C12_AssertFollowsExpected ==
  RowsCompiled =>
    \A k \in 1..Len(Dataset) : AssertsOf(RowActions(k)) = ClaimedAsserts(RowExpected(k))

\* the k-th row subsequence without the wait that separates it from the
\* next row
RowBody(k) ==
  IF k < Len(RowStarts) /\ RowActions(k)[Len(RowActions(k))].type = "wait"
       /\ RowActions(k)[Len(RowActions(k))].timeout = 1000
  THEN SubSeq(RowActions(k), 1, Len(RowActions(k)) - 1)
  ELSE RowActions(k)

\* the action kinds of a sequence, in order
Kinds(actions) == [i \in 1..Len(actions) |-> actions[i].type]

\* the kinds and elements of a sequence, in order
Shape(actions) == [i \in 1..Len(actions) |-> <<actions[i].type, actions[i].element>>]

\* C13 as stated: any two rows of a dataset compile to subsequences with the
\* same action kinds in the same order.
C13_RowsIsomorphic ==
  RowsCompiled =>
    \A k, l \in 1..Len(Dataset) : Kinds(RowBody(k)) = Kinds(RowBody(l))

\* what every row starts with: open the login page, fill in both fields,
\* click login, wait
LoginShape ==
  << <<"navigate", Undefined>>, <<"fill", "username input field">>,
     <<"fill", "password input field">>, <<"click", "login button">>,
     <<"wait", Undefined>> >>

\* C13 amended: every row of a dataset compiles to the same five login
\* actions (same kinds, same elements, same order); after them a row has
\* nothing, one assert, or one assert and the three logout actions,
\* depending on its expected outcome.
C13_RowsShareLoginShape ==
  RowsCompiled =>
    \A k \in 1..Len(Dataset) :
      /\ Len(RowBody(k)) >= Len(LoginShape)
      /\ Shape(SubSeq(RowBody(k), 1, Len(LoginShape))) = LoginShape
      /\ Kinds(SubSeq(RowBody(k), Len(LoginShape) + 1, Len(RowBody(k))))
           \in {<<>>, <<"assert">>, <<"assert", "click", "click", "wait">>}

\* a dataset was compiled with a row that ends after the login actions and a
\* row that goes on to the assert and the logout
C13_Witness ==
  /\ RowsCompiled
  /\ \E k, l \in 1..Len(Dataset) :
       /\ Len(RowBody(k)) = Len(LoginShape)
       /\ Len(RowBody(l)) = Len(LoginShape) + 4

\* whether a sequence holds the logout subsequence
HasLogout(actions) ==
  \E i \in 1..(Len(actions) - 2) :
    /\ actions[i].type = "click" /\ actions[i].element = "user dropdown menu"
    /\ actions[i + 1].type = "click" /\ actions[i + 1].element = "logout button"
    /\ actions[i + 2].type = "wait"

\* C14: for every dataset row, inline or from a CSV file, the row
\* subsequence holds the logout subsequence (click user dropdown menu, click
\* logout button, wait) exactly when the source text mentions logout and
\* the row's expected outcome contains "dashboard".
C14_LogoutAfterSuccess ==
  RowsCompiled =>
    \A k \in 1..Len(Dataset) :
      HasLogout(RowActions(k)) <=>
        /\ Includes(ToLowerCase(promptContent), "logout")
        /\ Includes(ToLowerCase(RowExpected(k)), "dashboard")

RECURSIVE RecordsIn(_)
\* the records written in the blocks, in order
RecordsIn(blocks) ==
  IF Len(blocks) = 0 THEN <<>>
  ELSE (IF \E r \in BlockRecords : "\n\n" \o Head(blocks) = RecordBlock(r)
        THEN <<CHOOSE r \in BlockRecords : "\n\n" \o Head(blocks) = RecordBlock(r)>>
        ELSE <<>>) \o RecordsIn(Tail(blocks))

\* the records of the compiled prompt: its blocks after the heading
WrittenRecords == RecordsIn(Tail(Split(promptContent, "\n\n")))

RECURSIVE CompleteAmong(_)
\* the records with all three fields, in order
CompleteAmong(records) ==
  IF Len(records) = 0 THEN <<>>
  ELSE (IF Head(records).username # "" /\ Head(records).password # ""
             /\ Head(records).expected # ""
        THEN <<Head(records)>> ELSE <<>>) \o CompleteAmong(Tail(records))

\* C15: the block scan emits a row exactly for each record with all three
\* fields, in order; an incomplete record is dropped and none of its fields
\* appears in an emitted row; a trailing incomplete record emits nothing.
C15_BlockScanEmitsCompleteRecords ==
  compiled.done /\ Len(WrittenRecords) > 0 =>
    /\ Dataset = CompleteAmong(WrittenRecords)
    /\ Len(RowStarts) = Len(CompleteAmong(WrittenRecords))

\* what the claim compares of an action
Structure(a) == <<a.type, a.element, a.value, a.url, a.condition, a.timeout>>

HasDataMarker(text) ==
  \/ Includes(ToLowerCase(text), ".csv")
  \/ /\ Includes(ToLowerCase(text), "username:")
     /\ Includes(ToLowerCase(text), "password:")
     /\ Includes(ToLowerCase(text), "expected:")

\* the text of line j of the prompt
PromptLine(j) == Split(promptContent, "\n")[j]

\* a prompt of numbered steps from "1." on, of which one carries a
\* data-driven marker and another does not
MixedStepsPrompt ==
  /\ StartsAt(promptContent, 1, "1. ")
  /\ \E j \in NumberedLines(promptContent) : HasDataMarker(PromptLine(j))
  /\ \E j \in NumberedLines(promptContent) : ~HasDataMarker(PromptLine(j))

\* C17: in a numbered-step prompt where some step carries a data-driven
\* marker, every numbered line is a step unit, and each step without the
\* marker is classified on its own and contributes its own actions at its
\* place in the output.
C17_DataCheckPerStep ==
  compiled.done /\ MixedStepsPrompt =>
    /\ Len(compiled.units) = Cardinality(NumberedLines(promptContent))
    /\ \A i \in Units :
         ~HasDataMarker(compiled.units[i].text) =>
           /\ compiled.units[i].intent # "data_driven_test"
           /\ Len(compiled.units[i].actions) >= 1
           /\ ActionsBefore(i) + Len(compiled.units[i].actions) <= Len(compiled.actions)
           /\ SubSeq(compiled.actions, ActionsBefore(i) + 1,
                     ActionsBefore(i) + Len(compiled.units[i].actions))
                = compiled.units[i].actions

\* whether a line is a metadata line
IsMetadataLine(line) == StartsAt(line, 1, "Title:") \/ StartsAt(line, 1, "Tags:")

RECURSIVE AfterMetadata(_)
\* the lines after the leading metadata lines and the empty lines that
\* follow them
AfterMetadata(lines) ==
  IF Len(lines) > 0 /\ (IsMetadataLine(Head(lines)) \/ Head(lines) = "")
  THEN AfterMetadata(Tail(lines)) ELSE lines

RECURSIVE JoinLines(_)
JoinLines(lines) ==
  IF Len(lines) = 0 THEN ""
  ELSE IF Len(lines) = 1 THEN lines[1]
  ELSE Head(lines) \o "\n" \o JoinLines(Tail(lines))

\* the instruction body of a prompt text
BodyOf(text) == JoinLines(AfterMetadata(Split(text, "\n")))

\* C18: a prompt that opens with Title: and Tags: lines compiles to the
\* actions of its instruction body alone, so that prompts differing only in
\* these lines compile to identical sequences.
C18_MetadataIgnored ==
  /\ compiled.done
  /\ StartsAt(promptContent, 1, "Title:")
  /\ \E j \in 1..Len(Split(promptContent, "\n")) : StartsAt(PromptLine(j), 1, "Tags:")
  =>
    compiled.actions = parsePromptToActions(testData, BodyOf(promptContent))

\* the kinds, elements and values of a sequence, in order
Structures(actions) == [i \in 1..Len(actions) |-> Structure(actions[i])]

\* a text without numbered line and without data-driven marker, holding a
\* keyword of some intent, that parsePromptToActions compiles as a whole
PlainPrompt ==
  /\ Trim(promptContent) # ""
  /\ NumberedLines(promptContent) = {}
  /\ ~HasDataMarker(promptContent)
  /\ compiled.path = "patterns"
  /\ PatternActions(ToLowerCase(promptContent)) # <<>>

\* C19: a text without numbered line and without data-driven marker is
\* compiled as one step unit: to the actions of the one intent the priority
\* order gives it, not to the templates of every intent whose keywords
\* occur in it.
C19_WholeTextIsOneStep ==
  compiled.done /\ PlainPrompt =>
    Structures(compiled.actions)
      = Structures(parseSimpleStep(testData, promptContent, 1))

\* the elements extractClickableElement resolves from pim, add and save
NavigationElements ==
  {"PIM navigation link", "Add Employee button", "save employee button"}

\* the actions claimed for a click on element
ClaimedClick(element) ==
  <<[type |-> "click", element |-> element]>>
    \o (IF element \in NavigationElements
        THEN <<[type |-> "wait", timeout |-> 2000]>> ELSE <<>>)

\* the kind of an action with what a click or a wait carries
ClickShape(a) ==
  IF a.type = "wait" THEN [type |-> "wait", timeout |-> a.timeout]
  ELSE [type |-> a.type, element |-> a.element]

\* C20: a step classified click_element compiles to a Click on the resolved
\* element, followed by a Wait of 2000 ms exactly when that element is one
\* of the navigation-triggering ones (pim, add, save), whatever the letter
\* case of the step text.
C20_WaitFollowsNavigationElement ==
  compiled.done =>
    \A i \in Units :
      compiled.units[i].intent = "click_element" =>
        [k \in 1..Len(compiled.units[i].actions) |->
           ClickShape(compiled.units[i].actions[k])]
          = ClaimedClick(extractClickableElement(compiled.units[i].text))

ClaimedLabeled(step, label) ==
  LET at == {i \in 1..Len(step) : StartsAt(ToLowerCase(step), i, label \o ":")}
  IN  IF at = {} THEN ""
      ELSE LET j == RunEnd(step, Min(at) + Len(label) + 1, IsSpace)
               g == IF CharAt(step, j) = "\"" THEN j + 1 ELSE j
           IN  SubSeq(step, g, RunEnd(step, g, NotQuoteOrSpace) - 1)

\* the credential claimed for a login step: the labeled value, else the
\* configured default
ClaimedCredential(step, label) ==
  IF ClaimedLabeled(step, label) # "" THEN ClaimedLabeled(step, label)
  ELSE userCredentials[label]

\* C22: a step classified login compiles to Fill(username input field),
\* Fill(password input field), Click(login button), Wait(3000) in that order;
\* each value is the one written after "username:" / "password:" in the step
\* when there is one and the configured default otherwise, so a step with no
\* labeled pair fills both defaults.
C22_LoginTemplate ==
  compiled.done =>
    \A i \in Units :
      compiled.units[i].intent = "login" =>
        Structures(compiled.units[i].actions)
          = Structures(<<
              FillAction("username input field",
                         ClaimedCredential(compiled.units[i].text, "username"), ""),
              FillAction("password input field",
                         ClaimedCredential(compiled.units[i].text, "password"), ""),
              ClickAction("login button", ""),
              WaitAction(3000, "") >>)

\* the duration claimed for a wait step: the first number followed by a unit,
\* taken as milliseconds for ms / milliseconds and as seconds for s / seconds
ClaimedDuration(step) ==
  LET at == {i \in 1..Len(step) : TimeoutMatchAt(step, i)}
  IN  IF at = {} THEN 2000
      ELSE LET d == RunEnd(step, Min(at), IsDigit)
               u == RunEnd(step, d, IsSpace)
               N == ParseInt(SubSeq(step, Min(at), d - 1))
           IN  IF StartsAt(ToLowerCase(step), u, "m") THEN N ELSE N * 1000

\* C23: a wait step compiles to one Wait whose duration is the number of the
\* text in milliseconds: N for N ms / milliseconds, N x 1000 for N s /
\* seconds, whatever the other words are, and 2000 when the text has no
\* number with a unit.
C23_WaitDurationInMilliseconds ==
  compiled.done =>
    \A i \in Units :
      compiled.units[i].intent = "wait_action" =>
        /\ Len(compiled.units[i].actions) = 1
        /\ compiled.units[i].actions[1].type = "wait"
        /\ compiled.units[i].actions[1].timeout
             = ClaimedDuration(compiled.units[i].text)

\* the values filled into element by the compiled actions, in order
RECURSIVE FilledInto(_, _)
FilledInto(actions, element) ==
  IF Len(actions) = 0 THEN <<>>
  ELSE (IF Head(actions).type = "fill" /\ Head(actions).element = element
        THEN <<Head(actions).value>> ELSE <<>>)
         \o FilledInto(Tail(actions), element)

\* C24: a well-formed triple line is expanded by the inline strategy, with
\* the row taken from the text, in every letter casing of its Username /
\* Password / Expected labels: the detection on the whole prompt and the
\* strategy selection of generateDataDrivenActions agree.
C24_InlineLabelsAnyCase ==
  compiled.done /\ promptContent \in CasedPrompts =>
    /\ compiled.path = "data_driven"
    /\ hasInlineDatasets(promptContent)
    /\ FilledInto(compiled.actions, "username input field") = <<"zed">>
    /\ FilledInto(compiled.actions, "password input field") = <<"zpw">>

\* the sub-clauses generateWorkflowActions hands back to
\* intelligentStepParser for the step text of unit i
SubClauses(i) ==
  LET parts == decomposeComplexStep(compiled.units[i].text)
  IN  {parts[j] : j \in 1..Len(parts)}

\* C27: the compilation of every step text ends by normal return: each call
\* intelligentStepParser makes through generateWorkflowActions is on a
\* sub-clause strictly shorter than the text being decomposed, so the parser
\* never recurses on the same text again and never runs out of stack.
C27_RecursionOnSmallerClauses ==
  compiled.done =>
    \A i \in Units :
      /\ ~compiled.units[i].overflow
      /\ compiled.units[i].intent = "complex_workflow" =>
           \A clause \in SubClauses(i) :
             Len(clause) < Len(compiled.units[i].text)

(***************************************************************************)
(* Properties of the executor, checked under Spec.                         *)
(***************************************************************************)

\* the failed steps of a step list
FailedSteps(steps) == {j \in 1..Len(steps) : steps[j].status = "failed"}

\* the actions of the prompt file a result is about
ActionsOf(file) ==
  compiledPrompts[CHOOSE q \in DOMAIN compiledPrompts : q.file = file]

\* steps 1..Len(steps) are the first actions of the sequence, in order, and
\* only the last of them may have failed
FailFast(steps, actions) ==
  /\ Len(steps) <= Len(actions)
  /\ \A j \in 1..Len(steps) :
       /\ steps[j].stepNumber = j
       /\ steps[j].description = actions[j].description
       /\ steps[j].status \in {"passed", "failed"}
       /\ steps[j].status = "failed" => j = Len(steps)

\* C2: when action i is the first to fail, actions 1..i-1 are recorded as
\* passed, action i as failed with stepNumber i and its description, no
\* action after i is executed and the result has success = FALSE.
C2_FailFast ==
  \A b \in DOMAIN batch :
    /\ batch[b].pc \in {"action", "reinit", "acting"} =>
         /\ FailedSteps(batch[b].steps) = {}
         /\ Len(batch[b].steps) = batch[b].i
         /\ FailFast(batch[b].steps, batch[b].actions)
    /\ \A r \in 1..Len(batch[b].results) :
         LET result == batch[b].results[r]
         IN  /\ FailFast(result.steps, ActionsOf(result.file))
             /\ result.success = (FailedSteps(result.steps) = {})
             /\ result.success => Len(result.steps) = Len(ActionsOf(result.file))
             /\ result.failedSteps = Cardinality(FailedSteps(result.steps))
             /\ result.passedSteps = Len(result.steps) - result.failedSteps

\* one prompt failed at its first action with the second never run, another
\* failed at its second action after the first passed
C2_Witness ==
  \E b, c \in DOMAIN batch :
    /\ \E r \in 1..Len(batch[b].results) :
         /\ ~batch[b].results[r].success
         /\ Len(batch[b].results[r].steps) = 1
         /\ Len(ActionsOf(batch[b].results[r].file)) = 2
    /\ \E r \in 1..Len(batch[c].results) :
         /\ ~batch[c].results[r].success
         /\ Len(batch[c].results[r].steps) = 2
         /\ batch[c].results[r].steps[1].status = "passed"
         /\ batch[c].results[r].steps[2].status = "failed"

\* the result of prompt p in the batch of the b-th browser
ResultAt(b, p) == allResults[(b - 1) * Len(prompts) + p]

\* no browser is named twice
DistinctBrowsers ==
  \A b, c \in 1..Len(browsersToRun) : browsersToRun[b] = browsersToRun[c] => b = c

\* C3: a failing action aborts only its own sequence: when execute is done
\* there is exactly one PromptResult per prompt and browser, and
\* summary.passed + summary.failed = summary.total.
C3_OneResultPerPromptAndBrowser ==
  phase = "done" /\ Len(prompts) > 0 =>
    /\ \A b \in 1..Len(browsersToRun) : batch[b].pc = "done"
    /\ Len(allResults) = Len(prompts) * Len(browsersToRun)
    /\ \A b \in 1..Len(browsersToRun) : \A p \in 1..Len(prompts) :
         /\ ResultAt(b, p).file = prompts[p].file
         /\ ResultAt(b, p).browser = browsersToRun[b]
         /\ DistinctBrowsers =>
              Cardinality({j \in 1..Len(allResults) :
                             /\ allResults[j].file = prompts[p].file
                             /\ allResults[j].browser = browsersToRun[b]}) = 1
    /\ summary.total = Len(allResults)
    /\ summary.passed + summary.failed = summary.total
    /\ summary.failed = Cardinality({j \in 1..Len(allResults) : ~allResults[j].success})

\* a run of two browsers is done in which a prompt failed, the prompt after
\* it passed all its steps on the same browser, and the other browser passed
\* the prompt that failed
C3_Witness ==
  /\ phase = "done"
  /\ Len(browsersToRun) = 2
  /\ Len(prompts) = 2
  /\ ~ResultAt(1, 1).success
  /\ ResultAt(1, 2).success
  /\ Len(ResultAt(1, 2).steps) > 0
  /\ ResultAt(2, 1).success
  /\ Len(ResultAt(2, 1).steps) > 0

\* C4: in parallel mode, while the batch of browser B has an action
\* running, the browser state is initialized, of type B, and in the
\* requested headed mode.
C4_SessionsShareNoState ==
  IsParallel =>
    \A b \in DOMAIN batch :
      batch[b].pc = "acting" =>
        /\ browser.isInitialized
        /\ browser.browserType = browsersToRun[b]
        /\ browser.isHeaded = options.headed

\* the batches that have started and not returned
ActiveBatches == {b \in Batches : batch[b].pc \notin {"idle", "done"}}

\* C25: without --parallel, or with one target browser, the batch of a
\* browser starts only after the batches before it ran all their prompts,
\* cleaned up and returned; at most one batch holds an initialized browser,
\* which is its own; and inside a batch an action starts only after the
\* actions before it completed.
C25_SequentialBrowsers ==
  phase = "running" /\ ~IsParallel =>
    /\ \A b \in Batches :
         batch[b].pc # "idle" =>
           \A c \in 1..(b - 1) :
             /\ batch[c].pc = "done"
             /\ batch[c].prompt > Len(prompts)
    /\ Cardinality(ActiveBatches) <= 1
    /\ browser.isInitialized =>
         \E b \in ActiveBatches : browser.browserType = browsersToRun[b]
    /\ \A b \in Batches :
         batch[b].pc \in {"action", "reinit", "acting"} =>
           /\ Len(batch[b].steps) = batch[b].i
           /\ \A j \in 1..batch[b].i : batch[b].steps[j].status = "passed"

\* in sequential mode the second browser executes the second action of a
\* prompt after the first browser's batch returned
C25_Witness ==
  /\ phase = "running"
  /\ ~options.parallel
  /\ Len(browsersToRun) >= 2
  /\ batch[1].pc = "done"
  /\ batch[2].pc = "acting"
  /\ batch[2].i >= 1
  /\ browser.isInitialized

ReturnedResults ==
  UNION {{batch[b].results[r] : r \in 1..Len(batch[b].results)} : b \in DOMAIN batch}

\* C28: every PromptResult of executePromptDirectly is consistent: passedSteps
\* + failedSteps is the number of recorded steps, at most one step failed
\* and it is the last one recorded, success holds exactly when failedSteps
\* is 0, and a successful result has passedSteps = totalSteps = the number of
\* compiled actions.
C28_ResultConsistent ==
  \A result \in ReturnedResults :
    /\ result.passedSteps + result.failedSteps = Len(result.steps)
    /\ result.failedSteps = Cardinality(FailedSteps(result.steps))
    /\ result.failedSteps <= 1
    /\ FailedSteps(result.steps) \subseteq {Len(result.steps)}
    /\ result.success <=> result.failedSteps = 0
    /\ result.success =>
         /\ result.passedSteps = result.totalSteps
         /\ result.totalSteps = Len(ActionsOf(result.file))

\* a batch returned a result that failed at its second step and a
\* successful result of two steps
C28_Witness ==
  /\ \E result \in ReturnedResults :
       /\ ~result.success
       /\ result.passedSteps = 1
       /\ result.failedSteps = 1
  /\ \E result \in ReturnedResults :
       /\ result.success
       /\ result.totalSteps >= 2

\* C29: a prompt is reported successful only if at least one action was
\* executed for it: a result with success = TRUE has totalSteps >= 1, also
\* for a data-driven prompt whose dataset has no rows.
C29_SuccessNeedsAnAction ==
  \A result \in ReturnedResults :
    result.success => result.totalSteps >= 1 /\ Len(result.steps) >= 1

RECURSIVE SumOfTotals(_, _)
\* the sum of stats[name].total over a set of browser names
SumOfTotals(stats, names) ==
  IF names = {} THEN 0
  ELSE LET name == CHOOSE n \in names : TRUE
       IN  stats[name].total + SumOfTotals(stats, names \ {name})

\* C30: for every options.browsers list getBrowsersToRun returns a non-empty
\* list of supported browser names; after execute the statistics of each
\* browser run have total = the number of prompts and passed + failed =
\* total, and the totals of the browsers add up to summary.total.
C30_BrowserStatistics ==
  /\ Len(getBrowsersToRun(options)) >= 1
  /\ \A b \in 1..Len(getBrowsersToRun(options)) :
       getBrowsersToRun(options)[b] \in supportedBrowsers
  /\ phase = "done" /\ Len(prompts) > 0 =>
       /\ browsersToRun = getBrowsersToRun(options)
       /\ \A b \in Batches :
            /\ summary.browserResults[browsersToRun[b]].total = Len(prompts)
            /\ summary.browserResults[browsersToRun[b]].passed
                 + summary.browserResults[browsersToRun[b]].failed
                 = summary.browserResults[browsersToRun[b]].total
       /\ SumOfTotals(summary.browserResults, DOMAIN summary.browserResults)
            = summary.total

====
